---- MODULE Spec2Model ----
(***************************************************************************)
(* Replicon identity resolution and consensus engine of Bb_pangenome:      *)
(*   compare_calls.py             pairwise call comparison (categorize,    *)
(*                                main loop with heuristics and overrides) *)
(*   add_replicon_to_gml.py       per-gene-cluster consensus               *)
(*   generate_chromosome_lists.py per-assembly replicon placement          *)
(* Python str values are TLA+ strings; a character of s is SubSeq(s,i,i).  *)
(* A Python exception is the value of the field "raised" of a result.      *)
(***************************************************************************)
EXTENDS Integers, Sequences, FiniteSets, TLC

VARIABLES
    fn_in,      \* arguments of the pure function under test
    fn_out,     \* what the applied function returned or raised
    \* compare_calls.py main()
    old_calls,          \* (assembly_id, contig_id) -> call, from --old
    new_calls,          \* (assembly_id, contig_id) -> call, from --new
    contig_lengths,     \* (assembly_id, contig_id) -> contig_len, from --new
    overrides,          \* (assembly_id, contig_id) -> resolved_call, from --overrides
    auto_chromosome_bp, \* --auto-chromosome-bp
    all_keys,           \* sorted union of the keys of both tables (line 251)
    key_idx,            \* position of the loop of line 258 in all_keys
    rows,               \* rows appended so far
    categories,         \* Counter of categories
    auto_chrom_count,
    override_count,
    cmp_pc,             \* "idle", "loop", "done" or "error"
    cmp_raised,         \* the exception that ended the run, or "none"
    comparison_tsv,     \* rows of the written --output table
    review_count,       \* the count printed in "N contigs need manual review"
    review_lines,       \* the rows printed one by one under that warning
    review_more,        \* the N of "... and N more", 0 when it is not printed
    \* add_replicon_to_gml.py assign_consensus_replicon()
    replicon_list,      \* the argument replicon_list of the two functions
    threshold,          \* --threshold, in thousandths
    consensus_result,   \* the returned dict
    family_result,      \* the dict returned by analyze_family_diversity()
    \* generate_chromosome_lists.py main()
    classifier_rows,    \* rows of the --classifier table, in file order
    mode,               \* --mode
    ref_cov,            \* --ref-cov, in hundredths
    query_cov,          \* --query-cov, in hundredths
    identity,           \* --identity, in hundredths
    dry_run,            \* --dry-run
    assembly_order,     \* sorted(assemblies.keys()) of line 177
    fieldnames,         \* the columns of the header of the --classifier table
    asm_idx,            \* position of the loop of line 177 in the sorted assembly ids
    chrom_files,        \* assembly_id -> lines of its chromosome_list.tsv
    unloc_files,        \* assembly_id -> lines of its unlocalised_list.tsv
    dry_run_out,        \* the [CHROM] and [UNLOC] lines printed by a dry run
    total_chrom_files,
    total_unloc_files,
    total_placed,
    total_unlocalised,
    total_unplaced,
    assemblies_without_entries,
    pl_pc,              \* "idle", "loop", "done" or "error"
    pl_raised           \* the exception that ended the run, or "none"

fn_vars == <<fn_in, fn_out>>
cmp_inputs == <<old_calls, new_calls, contig_lengths, overrides, auto_chromosome_bp,
                all_keys>>
cmp_vars == <<cmp_inputs, key_idx, rows, categories, auto_chrom_count, override_count,
              cmp_pc, cmp_raised, comparison_tsv, review_count, review_lines,
              review_more>>
cons_vars == <<replicon_list, threshold, consensus_result, family_result>>
pl_inputs == <<classifier_rows, mode, ref_cov, query_cov, identity, dry_run,
               assembly_order, fieldnames>>
pl_totals == <<total_chrom_files, total_unloc_files, total_placed, total_unlocalised,
               total_unplaced>>
pl_vars == <<pl_inputs, asm_idx, chrom_files, unloc_files, dry_run_out, pl_totals,
             assemblies_without_entries, pl_pc, pl_raised>>
vars == <<fn_vars, cmp_vars, cons_vars, pl_vars>>

(***************************************************************************)
(* Bounds of the explored inputs                                           *)
(***************************************************************************)
MaxPad == 1
MaxStars == 1
MaxKeys == 2
MaxIsolates == 10
MaxRows == 3
MaxReviewKeys == 21

(***************************************************************************)
(* str methods used by the scripts                                         *)
(***************************************************************************)
Digits == {"0", "1", "2", "3", "4", "5", "6", "7", "8", "9"}
\* The characters str.strip() and str.split() treat as blanks (str.isspace())
\* among the code points below U+0100: tab, line feed, form feed, carriage
\* return and space, then, written as the characters themselves, U+000B,
\* U+001C, U+001D, U+001E, U+001F, U+0085 and U+00A0.
Whitespace ==
    {" ", "\t", "\n", "\f", "\r",
     "", "", "", "", "", "", " "}

CharAt(s, i) == SubSeq(s, i, i)

\* str.lower() on the code points below U+0100: the letters A-Z and the
\* capitals U+00C0..U+00DE (U+00D7, the multiplication sign, is not a letter),
\* written as the characters themselves.
LowerOf ==
    ("A" :> "a") @@ ("B" :> "b") @@ ("C" :> "c") @@ ("D" :> "d") @@ ("E" :> "e") @@ ("F" :> "f") @@
    ("G" :> "g") @@ ("H" :> "h") @@ ("I" :> "i") @@ ("J" :> "j") @@ ("K" :> "k") @@ ("L" :> "l") @@
    ("M" :> "m") @@ ("N" :> "n") @@ ("O" :> "o") @@ ("P" :> "p") @@ ("Q" :> "q") @@ ("R" :> "r") @@
    ("S" :> "s") @@ ("T" :> "t") @@ ("U" :> "u") @@ ("V" :> "v") @@ ("W" :> "w") @@ ("X" :> "x") @@
    ("Y" :> "y") @@ ("Z" :> "z") @@ ("À" :> "à") @@ ("Á" :> "á") @@ ("Â" :> "â") @@ ("Ã" :> "ã") @@
    ("Ä" :> "ä") @@ ("Å" :> "å") @@ ("Æ" :> "æ") @@ ("Ç" :> "ç") @@ ("È" :> "è") @@ ("É" :> "é") @@
    ("Ê" :> "ê") @@ ("Ë" :> "ë") @@ ("Ì" :> "ì") @@ ("Í" :> "í") @@ ("Î" :> "î") @@ ("Ï" :> "ï") @@
    ("Ð" :> "ð") @@ ("Ñ" :> "ñ") @@ ("Ò" :> "ò") @@ ("Ó" :> "ó") @@ ("Ô" :> "ô") @@ ("Õ" :> "õ") @@
    ("Ö" :> "ö") @@ ("Ø" :> "ø") @@ ("Ù" :> "ù") @@ ("Ú" :> "ú") @@ ("Û" :> "û") @@ ("Ü" :> "ü") @@
    ("Ý" :> "ý") @@ ("Þ" :> "þ")

LowerChar(c) == IF c \in DOMAIN LowerOf THEN LowerOf[c] ELSE c

str_lower(s) ==
    LET RECURSIVE lower_from(_, _)
        lower_from(s5, i) ==
            IF i > Len(s5) THEN "" ELSE LowerChar(CharAt(s5, i)) \o lower_from(s5, i + 1)
    IN lower_from(s, 1)

str_strip(s) ==
    LET RECURSIVE str_lstrip(_)
        str_lstrip(s3) ==
            IF Len(s3) > 0 /\ CharAt(s3, 1) \in Whitespace
            THEN str_lstrip(SubSeq(s3, 2, Len(s3)))
            ELSE s3

        RECURSIVE str_rstrip(_)
        str_rstrip(s4) ==
            IF Len(s4) > 0 /\ CharAt(s4, Len(s4)) \in Whitespace
            THEN str_rstrip(SubSeq(s4, 1, Len(s4) - 1))
            ELSE s4
    IN str_rstrip(str_lstrip(s))

str_startswith(s, p) == Len(s) >= Len(p) /\ SubSeq(s, 1, Len(p)) = p

\* re.split(sep, s) for a literal separator: leftmost non-overlapping cuts.
RECURSIVE re_split(_, _)
re_split(sep, s) ==
    IF \E i \in 1..(Len(s) - Len(sep) + 1) : SubSeq(s, i, i + Len(sep) - 1) = sep
    THEN LET i == CHOOSE j \in 1..(Len(s) - Len(sep) + 1) :
                    /\ SubSeq(s, j, j + Len(sep) - 1) = sep
                    /\ \A k \in 1..(j - 1) : SubSeq(s, k, k + Len(sep) - 1) # sep
         IN <<SubSeq(s, 1, i - 1)>> \o re_split(sep, SubSeq(s, i + Len(sep), Len(s)))
    ELSE <<s>>

\* Length of the longest run of characters of set cs starting at position i.
RECURSIVE RunLen(_, _, _)
RunLen(s, i, cs) ==
    IF i <= Len(s) /\ CharAt(s, i) \in cs THEN 1 + RunLen(s, i + 1, cs) ELSE 0

(***************************************************************************)
(* compare_calls.py: CallNormalizer                                        *)
(***************************************************************************)
EmptyWords == {"na", "nan", "none", "", "unclassified"}

normalize_call(call) ==
    IF call = "" \/ str_lower(call) \in EmptyWords
    THEN ""
    ELSE str_lower(str_strip(call))

is_empty(call) == normalize_call(call) = ""

extract_base_plasmid_calls(call) ==
    IF is_empty(call) THEN {}
    ELSE LET parts == re_split(":::", normalize_call(call))
         IN {str_strip(parts[i]) : i \in {j \in 1..Len(parts) : str_strip(parts[j]) # ""}}

strip_suffix(call) ==
    LET \* re.sub(r'\*+$', '', s): the trailing run of '*' is removed.  ($ also matches
        \* before a final newline; s is stripped first, so it ends in no newline.)
        RECURSIVE DropTrailingStars(_)
        DropTrailingStars(s) ==
            IF Len(s) > 0 /\ CharAt(s, Len(s)) = "*"
            THEN DropTrailingStars(SubSeq(s, 1, Len(s) - 1))
            ELSE s
    IN DropTrailingStars(str_strip(call))

\* Optional[str]: None, or Some(s) for the str s.
None == <<>>
Some(s) == <<s>>

\* re.match(r'^((?:cp|lp)\d+)', call)
get_replicon_family(raw) ==
    LET call == normalize_call(strip_suffix(raw))
        d == RunLen(call, 3, Digits)
    IN IF call = "" \/ call = "unclassified" THEN None
       ELSE IF (str_startswith(call, "cp") \/ str_startswith(call, "lp")) /\ d >= 1
            THEN Some(SubSeq(call, 1, 2 + d))
            ELSE Some(call)

(***************************************************************************)
(* compare_calls.py: CallComparator                                        *)
(***************************************************************************)
Return(cat, resolution) ==
    [raised |-> "none", category |-> cat, resolved_call |-> resolution]

Raise(exc) == [raised |-> exc, category |-> "", resolved_call |-> ""]

\* categorize without the exact-match test of line 105.
categorize_no_exact(old_call, new_call) ==
    LET old_norm == normalize_call(old_call)
        new_norm == normalize_call(new_call)
    IN IF is_empty(old_call) /\ is_empty(new_call) THEN Return("exact_match", "")
       ELSE IF ~is_empty(old_call) /\ is_empty(new_call)
            THEN Return("new_unclassified", str_strip(old_call))
       ELSE IF is_empty(old_call) /\ ~is_empty(new_call)
            THEN Return("old_unclassified", str_strip(new_call))
       ELSE IF strip_suffix(old_norm) = strip_suffix(new_norm)
            THEN Return("annotation_suffix", str_strip(old_call))
       ELSE Raise("NameError")

\* Lines 113-114 bind old_base_calls and new_base_calls; line 116 reads
\* old_base_plasmid_calls, a name bound in no scope of the module, so every
\* call that gets past line 110 raises NameError and lines 118-136 never run.
categorize(old_call, new_call) ==
    LET old_norm == normalize_call(old_call)
        new_norm == normalize_call(new_call)
    IN IF is_empty(old_call) /\ is_empty(new_call) THEN Return("exact_match", "")
       ELSE IF ~is_empty(old_call) /\ is_empty(new_call)
            THEN Return("new_unclassified", str_strip(old_call))
       ELSE IF is_empty(old_call) /\ ~is_empty(new_call)
            THEN Return("old_unclassified", str_strip(new_call))
       ELSE IF old_norm = new_norm
            THEN Return("exact_match", str_strip(old_call))
       ELSE IF strip_suffix(old_norm) = strip_suffix(new_norm)
            THEN Return("annotation_suffix", str_strip(old_call))
       ELSE Raise("NameError")

(***************************************************************************)
(* compare_calls.py: main(), the state after the tables are read           *)
(***************************************************************************)
\* ord() of the code points U+0001..U+00FF, written as the characters
\* themselves: Python orders str by code point. U+0060 is missing, a string
\* of TLA+ cannot hold it.
OrdOf ==
    ("" :> 1) @@ ("" :> 2) @@ ("" :> 3) @@ ("" :> 4) @@ ("" :> 5) @@ ("" :> 6) @@
    ("" :> 7) @@ ("" :> 8) @@ ("\t" :> 9) @@ ("\n" :> 10) @@ ("" :> 11) @@ ("\f" :> 12) @@
    ("\r" :> 13) @@ ("" :> 14) @@ ("" :> 15) @@ ("" :> 16) @@ ("" :> 17) @@ ("" :> 18) @@
    ("" :> 19) @@ ("" :> 20) @@ ("" :> 21) @@ ("" :> 22) @@ ("" :> 23) @@ ("" :> 24) @@
    ("" :> 25) @@ ("" :> 26) @@ ("" :> 27) @@ ("" :> 28) @@ ("" :> 29) @@ ("" :> 30) @@
    ("" :> 31) @@ (" " :> 32) @@ ("!" :> 33) @@ ("\"" :> 34) @@ ("#" :> 35) @@ ("$" :> 36) @@
    ("%" :> 37) @@ ("&" :> 38) @@ ("'" :> 39) @@ ("(" :> 40) @@ (")" :> 41) @@ ("*" :> 42) @@
    ("+" :> 43) @@ ("," :> 44) @@ ("-" :> 45) @@ ("." :> 46) @@ ("/" :> 47) @@ ("0" :> 48) @@
    ("1" :> 49) @@ ("2" :> 50) @@ ("3" :> 51) @@ ("4" :> 52) @@ ("5" :> 53) @@ ("6" :> 54) @@
    ("7" :> 55) @@ ("8" :> 56) @@ ("9" :> 57) @@ (":" :> 58) @@ (";" :> 59) @@ ("<" :> 60) @@
    ("=" :> 61) @@ (">" :> 62) @@ ("?" :> 63) @@ ("@" :> 64) @@ ("A" :> 65) @@ ("B" :> 66) @@
    ("C" :> 67) @@ ("D" :> 68) @@ ("E" :> 69) @@ ("F" :> 70) @@ ("G" :> 71) @@ ("H" :> 72) @@
    ("I" :> 73) @@ ("J" :> 74) @@ ("K" :> 75) @@ ("L" :> 76) @@ ("M" :> 77) @@ ("N" :> 78) @@
    ("O" :> 79) @@ ("P" :> 80) @@ ("Q" :> 81) @@ ("R" :> 82) @@ ("S" :> 83) @@ ("T" :> 84) @@
    ("U" :> 85) @@ ("V" :> 86) @@ ("W" :> 87) @@ ("X" :> 88) @@ ("Y" :> 89) @@ ("Z" :> 90) @@
    ("[" :> 91) @@ ("\\" :> 92) @@ ("]" :> 93) @@ ("^" :> 94) @@ ("_" :> 95) @@
    ("a" :> 97) @@ ("b" :> 98) @@ ("c" :> 99) @@ ("d" :> 100) @@ ("e" :> 101) @@ ("f" :> 102) @@
    ("g" :> 103) @@ ("h" :> 104) @@ ("i" :> 105) @@ ("j" :> 106) @@ ("k" :> 107) @@ ("l" :> 108) @@
    ("m" :> 109) @@ ("n" :> 110) @@ ("o" :> 111) @@ ("p" :> 112) @@ ("q" :> 113) @@ ("r" :> 114) @@
    ("s" :> 115) @@ ("t" :> 116) @@ ("u" :> 117) @@ ("v" :> 118) @@ ("w" :> 119) @@ ("x" :> 120) @@
    ("y" :> 121) @@ ("z" :> 122) @@ ("{" :> 123) @@ ("|" :> 124) @@ ("}" :> 125) @@ ("~" :> 126) @@
    ("" :> 127) @@ ("" :> 128) @@ ("" :> 129) @@ ("" :> 130) @@ ("" :> 131) @@ ("" :> 132) @@
    ("" :> 133) @@ ("" :> 134) @@ ("" :> 135) @@ ("" :> 136) @@ ("" :> 137) @@ ("" :> 138) @@
    ("" :> 139) @@ ("" :> 140) @@ ("" :> 141) @@ ("" :> 142) @@ ("" :> 143) @@ ("" :> 144) @@
    ("" :> 145) @@ ("" :> 146) @@ ("" :> 147) @@ ("" :> 148) @@ ("" :> 149) @@ ("" :> 150) @@
    ("" :> 151) @@ ("" :> 152) @@ ("" :> 153) @@ ("" :> 154) @@ ("" :> 155) @@ ("" :> 156) @@
    ("" :> 157) @@ ("" :> 158) @@ ("" :> 159) @@ (" " :> 160) @@ ("¡" :> 161) @@ ("¢" :> 162) @@
    ("£" :> 163) @@ ("¤" :> 164) @@ ("¥" :> 165) @@ ("¦" :> 166) @@ ("§" :> 167) @@ ("¨" :> 168) @@
    ("©" :> 169) @@ ("ª" :> 170) @@ ("«" :> 171) @@ ("¬" :> 172) @@ ("­" :> 173) @@ ("®" :> 174) @@
    ("¯" :> 175) @@ ("°" :> 176) @@ ("±" :> 177) @@ ("²" :> 178) @@ ("³" :> 179) @@ ("´" :> 180) @@
    ("µ" :> 181) @@ ("¶" :> 182) @@ ("·" :> 183) @@ ("¸" :> 184) @@ ("¹" :> 185) @@ ("º" :> 186) @@
    ("»" :> 187) @@ ("¼" :> 188) @@ ("½" :> 189) @@ ("¾" :> 190) @@ ("¿" :> 191) @@ ("À" :> 192) @@
    ("Á" :> 193) @@ ("Â" :> 194) @@ ("Ã" :> 195) @@ ("Ä" :> 196) @@ ("Å" :> 197) @@ ("Æ" :> 198) @@
    ("Ç" :> 199) @@ ("È" :> 200) @@ ("É" :> 201) @@ ("Ê" :> 202) @@ ("Ë" :> 203) @@ ("Ì" :> 204) @@
    ("Í" :> 205) @@ ("Î" :> 206) @@ ("Ï" :> 207) @@ ("Ð" :> 208) @@ ("Ñ" :> 209) @@ ("Ò" :> 210) @@
    ("Ó" :> 211) @@ ("Ô" :> 212) @@ ("Õ" :> 213) @@ ("Ö" :> 214) @@ ("×" :> 215) @@ ("Ø" :> 216) @@
    ("Ù" :> 217) @@ ("Ú" :> 218) @@ ("Û" :> 219) @@ ("Ü" :> 220) @@ ("Ý" :> 221) @@ ("Þ" :> 222) @@
    ("ß" :> 223) @@ ("à" :> 224) @@ ("á" :> 225) @@ ("â" :> 226) @@ ("ã" :> 227) @@ ("ä" :> 228) @@
    ("å" :> 229) @@ ("æ" :> 230) @@ ("ç" :> 231) @@ ("è" :> 232) @@ ("é" :> 233) @@ ("ê" :> 234) @@
    ("ë" :> 235) @@ ("ì" :> 236) @@ ("í" :> 237) @@ ("î" :> 238) @@ ("ï" :> 239) @@ ("ð" :> 240) @@
    ("ñ" :> 241) @@ ("ò" :> 242) @@ ("ó" :> 243) @@ ("ô" :> 244) @@ ("õ" :> 245) @@ ("ö" :> 246) @@
    ("÷" :> 247) @@ ("ø" :> 248) @@ ("ù" :> 249) @@ ("ú" :> 250) @@ ("û" :> 251) @@ ("ü" :> 252) @@
    ("ý" :> 253) @@ ("þ" :> 254) @@ ("ÿ" :> 255)

RECURSIVE str_less(_, _)
str_less(a, b) ==
    IF Len(b) = 0 THEN FALSE
    ELSE IF Len(a) = 0 THEN TRUE
    ELSE IF CharAt(a, 1) = CharAt(b, 1)
         THEN str_less(SubSeq(a, 2, Len(a)), SubSeq(b, 2, Len(b)))
         ELSE OrdOf[CharAt(a, 1)] < OrdOf[CharAt(b, 1)]

\* Tuple comparison of (assembly_id, contig_id) keys.
key_less(j, k) == str_less(j[1], k[1]) \/ (j[1] = k[1] /\ str_less(j[2], k[2]))

\* sorted(S) for a set of keys.
RECURSIVE sorted_keys(_)
sorted_keys(S) ==
    IF S = {} THEN <<>>
    ELSE LET m == CHOOSE k \in S : \A j \in S \ {k} : key_less(k, j)
         IN <<m>> \o sorted_keys(S \ {m})

\* dict.get(key, default)
dict_get(d, key, default) == IF key \in DOMAIN d THEN d[key] ELSE default

\* The ordered checks applied to every key, a missing call read as "".
initial_category_always_categorize(key) ==
    categorize(dict_get(old_calls, key, ""), dict_get(new_calls, key, ""))

\* Lines 264-269.
initial_category(key) ==
    IF key \notin DOMAIN new_calls THEN Return("old_only", dict_get(old_calls, key, ""))
    ELSE IF key \notin DOMAIN old_calls THEN Return("new_only", dict_get(new_calls, key, ""))
    ELSE categorize(dict_get(old_calls, key, ""), dict_get(new_calls, key, ""))

\* The first heuristic applied whatever the category is.
auto_chromosome_fires_any_category(key, cat) ==
    /\ auto_chromosome_bp > 0
    /\ normalize_call(dict_get(new_calls, key, "")) = "chromosome"
    /\ dict_get(contig_lengths, key, 0) >= auto_chromosome_bp

\* Lines 274-277: the condition of the first auto-chromosome heuristic.
auto_chromosome_fires(key, cat) ==
    /\ auto_chromosome_bp > 0
    /\ cat = "different"
    /\ normalize_call(dict_get(new_calls, key, "")) = "chromosome"
    /\ dict_get(contig_lengths, key, 0) >= auto_chromosome_bp

\* Lines 271-292 applied to the (cat, resolved) of lines 264-269.
auto_resolve(key, r) ==
    LET \* Lines 284-289: the condition of the reverse heuristic.
        reverse_chromosome_fires(key1, cat) ==
            /\ auto_chromosome_bp > 0
            /\ cat = "different"
            /\ normalize_call(dict_get(old_calls, key1, "")) = "chromosome"
            /\ ~is_empty(dict_get(new_calls, key1, ""))
            /\ normalize_call(dict_get(new_calls, key1, "")) # "chromosome"
            /\ dict_get(contig_lengths, key1, 0) < auto_chromosome_bp
    IN LET new_call == dict_get(new_calls, key, "")
           r1 == IF auto_chromosome_fires(key, r.category)
                 THEN [r EXCEPT !.category = "auto_chromosome",
                                !.resolved_call = str_strip(new_call)]
                 ELSE r
           r2 == IF reverse_chromosome_fires(key, r1.category)
                 THEN [r1 EXCEPT !.category = "auto_chromosome",
                                 !.resolved_call = str_strip(new_call)]
                 ELSE r1
       IN [r2 EXCEPT !.fired = (IF auto_chromosome_fires(key, r.category) THEN 1 ELSE 0)
                               + (IF reverse_chromosome_fires(key, r1.category) THEN 1 ELSE 0)]

\* The override step with the exact_match exemption applied to the resolution too.
apply_override_keep_exact(key, r) ==
    IF key \in DOMAIN overrides /\ r.category # "exact_match"
    THEN [r EXCEPT !.resolved_call = overrides[key], !.category = "manual_override",
                   !.overridden = 1]
    ELSE r

\* The override step counting every overridden key, an exact match too.
apply_override_count_exact(key, r) ==
    IF key \in DOMAIN overrides
    THEN IF r.category # "exact_match"
         THEN [r EXCEPT !.resolved_call = overrides[key], !.category = "manual_override",
                        !.overridden = 1]
         ELSE [r EXCEPT !.resolved_call = overrides[key], !.overridden = 1]
    ELSE r

\* Lines 294-299.
apply_override(key, r) ==
    IF key \in DOMAIN overrides
    THEN IF r.category # "exact_match"
         THEN [r EXCEPT !.resolved_call = overrides[key], !.category = "manual_override",
                        !.overridden = 1]
         ELSE [r EXCEPT !.resolved_call = overrides[key]]
    ELSE r

\* Lines 259-299: one iteration of the loop, up to the row it appends.
loop_body(key) ==
    LET c == initial_category(key)
    IN IF c.raised # "none" THEN c
       ELSE apply_override(key, auto_resolve(key, c @@ [fired |-> 0, overridden |-> 0]))

counter_add(counter, k) ==
    IF k \in DOMAIN counter THEN [counter EXCEPT ![k] = @ + 1] ELSE counter @@ (k :> 1)

EmptyDict == <<>>

CmpIdle ==
    /\ old_calls = EmptyDict /\ new_calls = EmptyDict /\ contig_lengths = EmptyDict
    /\ overrides = EmptyDict /\ auto_chromosome_bp = 0 /\ all_keys = <<>>
    /\ key_idx = 0 /\ rows = <<>> /\ categories = EmptyDict
    /\ auto_chrom_count = 0 /\ override_count = 0
    /\ cmp_pc = "idle" /\ cmp_raised = "none" /\ comparison_tsv = <<>>
    /\ review_count = 0 /\ review_lines = <<>> /\ review_more = 0

\* Lines 258-310: one key of all_keys.  An exception raised by categorize is
\* caught nowhere: it ends main() before any output is written.
ProcessKey ==
    /\ cmp_pc = "loop"
    /\ key_idx <= Len(all_keys)
    /\ \E key \in {all_keys[key_idx]} : \E r \in {loop_body(key)} :
          IF r.raised # "none"
          THEN /\ cmp_pc' = "error"
               /\ cmp_raised' = r.raised
               /\ UNCHANGED <<key_idx, rows, categories, auto_chrom_count, override_count>>
          ELSE /\ rows' = Append(rows,
                       [assembly_id |-> key[1], contig_id |-> key[2],
                        contig_len |-> dict_get(contig_lengths, key, 0),
                        old_call |-> dict_get(old_calls, key, ""),
                        new_call |-> dict_get(new_calls, key, ""),
                        category |-> r.category, resolved_call |-> r.resolved_call])
               /\ categories' = counter_add(categories, r.category)
               /\ auto_chrom_count' = auto_chrom_count + r.fired
               /\ override_count' = override_count + r.overridden
               /\ key_idx' = key_idx + 1
               /\ UNCHANGED <<cmp_pc, cmp_raised>>
    /\ UNCHANGED <<cmp_inputs, comparison_tsv, review_count, review_lines, review_more,
                   fn_vars, cons_vars, pl_vars>>

\* Line 360: the number of rows the warning prints one by one.
ReviewLimit == 20

ReviewCategories == {"different", "partial_overlap", "new_unclassified"}

\* Lines 355-356: the rows from position i on whose category needs review.
RECURSIVE needs_review_from(_, _)
needs_review_from(rws, i) ==
    IF i > Len(rws) THEN <<>>
    ELSE (IF rws[i].category \in ReviewCategories THEN <<rws[i]>> ELSE <<>>)
            \o needs_review_from(rws, i + 1)

\* The warning printing every row that needs review.
review_shown_all(needs_review) == needs_review

\* Line 360: needs_review[:20].
review_shown(needs_review) ==
    SubSeq(needs_review, 1,
           IF Len(needs_review) > ReviewLimit THEN ReviewLimit ELSE Len(needs_review))

\* Lines 312-383: after the loop the comparison table is written, then the
\* summary and the manual-review warning are printed.
WriteComparison ==
    /\ cmp_pc = "loop"
    /\ key_idx > Len(all_keys)
    /\ comparison_tsv' = rows
    /\ \E needs_review \in {needs_review_from(rows, 1)} :
          /\ review_count' = Len(needs_review)
          /\ review_lines' = review_shown(needs_review)
          /\ review_more' = (IF Len(needs_review) > ReviewLimit
                             THEN Len(needs_review) - ReviewLimit ELSE 0)
    /\ cmp_pc' = "done"
    /\ UNCHANGED <<cmp_inputs, key_idx, rows, categories, auto_chrom_count,
                   override_count, cmp_raised, fn_vars, cons_vars, pl_vars>>

(***************************************************************************)
(* add_replicon_to_gml.py: ConsensusAggregator                             *)
(* Fractions are exact: top_count / total is the rational it denotes, a    *)
(* threshold is a number of thousandths, and round(x, 3) is the nearest    *)
(* number of thousandths.  For the list lengths explored, two distinct     *)
(* quotients differ by far more than a float's precision, so the float     *)
(* comparisons of the script order them as the rationals are ordered.      *)
(***************************************************************************)
list_count(list, x) == Cardinality({i \in 1..Len(list) : list[i] = x})

\* The position of the last occurrence, where the Counter keeps the first.
last_index(list, x) == CHOOSE i \in 1..Len(list) :
                            list[i] = x /\ \A j \in (i + 1)..Len(list) : list[j] # x

first_index(list, x) == CHOOSE i \in 1..Len(list) :
                            list[i] = x /\ \A j \in 1..(i - 1) : list[j] # x

most_common(list) ==
    LET \* Counter(list).most_common(): (element, count) pairs by descending count,
        \* elements of equal count in the order of their first occurrence.
        RECURSIVE most_common_of(_, _)
        most_common_of(list2, elems) ==
            IF elems = {} THEN <<>>
            ELSE LET top == CHOOSE x \in elems : \A y \in elems \ {x} :
                                \/ list_count(list2, x) > list_count(list2, y)
                                \/ /\ list_count(list2, x) = list_count(list2, y)
                                   /\ first_index(list2, x) < first_index(list2, y)
                 IN <<<<top, list_count(list2, top)>>>> \o most_common_of(list2, elems \ {top})
    IN most_common_of(list, {list[i] : i \in 1..Len(list)})

\* round(num / den, 3) in thousandths, for 0 <= num <= den.  num / den is the
\* float nearest to the fraction and round() rounds that float to the nearest
\* thousandth.  A fraction halfway between two thousandths is (2q + 1) / 2000;
\* its float is M / 2^(52 + j), M the integer nearest to
\* (2q + 1) * 2^(52 + j) / 2000 and j its binade: the result is the thousandth
\* on the side of the float, and the even one when the float is the fraction.
round3(num, den) ==
    LET \* 2^n mod 2000.
        RECURSIVE pow2_mod2000(_)
        pow2_mod2000(n) == IF n = 0 THEN 1 ELSE (2 * pow2_mod2000(n - 1)) % 2000

        \* The least j >= i with k * 2^(j - i) >= 2000: for i = 0, the j for which
        \* k / 2000 lies in [2^-j, 2^(1-j)).
        RECURSIVE binade_of(_, _)
        binade_of(k, i) == IF k >= 2000 THEN i ELSE binade_of(2 * k, i + 1)
    IN LET q == (1000 * num) \div den
           r == (1000 * num) % den
           k == 2 * q + 1
           rem == (k * pow2_mod2000(52 + binade_of(k, 0))) % 2000
       IN IF 2 * r # den THEN (IF 2 * r > den THEN q + 1 ELSE q)
          ELSE IF rem = 0 THEN (IF q % 2 = 1 THEN q + 1 ELSE q)
          ELSE IF rem > 1000 THEN q + 1 ELSE q

RECURSIVE int_str(_)
int_str(n) ==
    LET \* str(n) for n >= 0.
        DecDigit == <<"0", "1", "2", "3", "4", "5", "6", "7", "8", "9">>
    IN IF n < 10 THEN DecDigit[n + 1]
       ELSE int_str(n \div 10) \o DecDigit[(n % 10) + 1]

\* ",".join(f"{rep}({cnt})" for rep, cnt in pairs)
RECURSIVE join_counts(_)
join_counts(pairs) ==
    IF Len(pairs) = 0 THEN ""
    ELSE LET item == pairs[1][1] \o "(" \o int_str(pairs[1][2]) \o ")"
         IN IF Len(pairs) = 1 THEN item
            ELSE item \o "," \o join_counts(SubSeq(pairs, 2, Len(pairs)))

UnknownConsensus ==
    [consensus_replicon |-> "unknown", top_replicon |-> "unknown",
     consensus_fraction |-> 0, n_isolates |-> 0, all_replicons |-> "unknown"]

\* assign_consensus_replicon with a strict comparison at line 231.
assign_consensus_replicon_strict(list, tau) ==
    LET total == Len(list)
        counts == most_common(list)
    IN IF total = 0 THEN UnknownConsensus
       ELSE [consensus_replicon |->
                IF 1000 * counts[1][2] > tau * total THEN counts[1][1] ELSE "multi-replicon",
             top_replicon |-> counts[1][1],
             consensus_fraction |-> round3(counts[1][2], total),
             n_isolates |-> total,
             all_replicons |-> join_counts(counts)]

\* assign_consensus_replicon reporting the fraction cut, not rounded, to 3 places.
assign_consensus_replicon_trunc(list, tau) ==
    LET total == Len(list)
        counts == most_common(list)
    IN IF total = 0 THEN UnknownConsensus
       ELSE [consensus_replicon |->
                IF 1000 * counts[1][2] >= tau * total THEN counts[1][1] ELSE "multi-replicon",
             top_replicon |-> counts[1][1],
             consensus_fraction |-> (1000 * counts[1][2]) \div total,
             n_isolates |-> total,
             all_replicons |-> join_counts(counts)]

\* Lines 215-240; consensus_fraction in thousandths.
assign_consensus_replicon(list, tau) ==
    LET total == Len(list)
        counts == most_common(list)
    IN IF total = 0 THEN UnknownConsensus
       ELSE [consensus_replicon |->
                IF 1000 * counts[1][2] >= tau * total THEN counts[1][1] ELSE "multi-replicon",
             top_replicon |-> counts[1][1],
             consensus_fraction |-> round3(counts[1][2], total),
             n_isolates |-> total,
             all_replicons |-> join_counts(counts)]

NotApplied == [applied |-> FALSE]

ConsIdle ==
    /\ replicon_list = <<>>
    /\ threshold = 0
    /\ consensus_result = NotApplied
    /\ family_result = NotApplied

\* assign_consensus_replicon applied on its own to a list and a threshold, the
\* empty list included; main() applies it to the non-empty lists only (line 548).
Call_assign_consensus_replicon ==
    /\ consensus_result = NotApplied
    /\ consensus_result' = assign_consensus_replicon(replicon_list, threshold)
    /\ UNCHANGED <<replicon_list, threshold, family_result, fn_vars, cmp_vars, pl_vars>>

(***************************************************************************)
(* add_replicon_to_gml.py: family diversity of a gene cluster              *)
(* family_consensus_frac and cross_family_score are in thousandths.        *)
(***************************************************************************)

\* [a-z]
LowerLetters ==
    {"a", "b", "c", "d", "e", "f", "g", "h", "i", "j", "k", "l", "m",
     "n", "o", "p", "q", "r", "s", "t", "u", "v", "w", "x", "y", "z"}

\* re.match(r'^([a-z]+\d+)', s): group 1 of the match, or None.
family_match(s) ==
    LET a == RunLen(s, 1, LowerLetters)
        d == RunLen(s, a + 1, Digits)
    IN IF a >= 1 /\ d >= 1 THEN Some(SubSeq(s, 1, a + d)) ELSE None

\* classify_replicon_family taking every call as its own family.
classify_replicon_family_raw(replicon) == replicon

\* Lines 259-289.
classify_replicon_family(replicon) ==
    LET SpecialReplicons == {"unknown", "unmatched", "multi-replicon", "unknownreplicon"}

        \* sub in s
        str_contains(s, sub) ==
            \E i \in 1..(Len(s) - Len(sub) + 1) : SubSeq(s, i, i + Len(sub) - 1) = sub
    IN IF replicon \in SpecialReplicons THEN replicon
       ELSE IF replicon = "chromosome" THEN "chromosome"
       ELSE LET base == re_split("-lp", re_split("-cp", re_split("+", replicon)[1])[1])[1]
                fused == \/ str_contains(replicon, "+")
                         \/ str_contains(replicon, "-cp")
                         \/ str_contains(replicon, "-lp")
            IN IF fused /\ family_match(base) # None THEN family_match(base)[1]
               ELSE IF family_match(replicon) # None THEN family_match(replicon)[1]
               ELSE replicon

\* round(math.log2(k) * 10^6) for the counts k a cluster can have.
Log2Micro ==
    <<0, 1000000, 1584963, 2000000, 2321928, 2584963,
      2807355, 3000000, 3169925, 3321928, 3459432, 3584963>>

\* round(num / den, 3) in thousandths by long division, for 10 * den < 2^31.
round3_wide(num, den) ==
    LET r0 == num % den
        r1 == (10 * r0) % den
        r2 == (10 * r1) % den
        r3 == (10 * r2) % den
        q == 1000 * (num \div den) + 100 * ((10 * r0) \div den)
             + 10 * ((10 * r1) \div den) + ((10 * r2) \div den)
    IN IF 2 * r3 > den \/ (2 * r3 = den /\ q % 2 = 1) THEN q + 1 ELSE q

\* sum of c * log2(c) over the counts of pairs[i..], in millionths
RECURSIVE count_log_sum(_, _)
count_log_sum(pairs, i) ==
    IF i > Len(pairs) THEN 0
    ELSE pairs[i][2] * Log2Micro[pairs[i][2]] + count_log_sum(pairs, i + 1)

\* cross_family_score leaving the entropy undivided by its maximum.
cross_family_score_unnormalised(pairs, total) ==
    IF Len(pairs) <= 1 THEN 0
    ELSE round3_wide(total * Log2Micro[total] - count_log_sum(pairs, 1), total * 1000000)

\* Lines 438-445 and the round of line 457: entropy / log2(n_families), where
\* entropy = log2(total) - sum(c * log2(c)) / total.
cross_family_score(pairs, total) ==
    IF Len(pairs) <= 1 THEN 0
    ELSE round3_wide(total * Log2Micro[total] - count_log_sum(pairs, 1),
                     total * Log2Micro[Len(pairs)])

\* The dict of lines 416-425 with the family "".
EmptyDiversityNoSentinel ==
    [families |-> <<>>, family_counts |-> <<>>, n_families |-> 0, top_family |-> "",
     top_family_count |-> 0, family_consensus_frac |-> 0, is_single_family |-> TRUE,
     cross_family_score |-> 0]

\* Lines 416-425.
EmptyDiversity ==
    [families |-> <<>>, family_counts |-> <<>>, n_families |-> 0, top_family |-> "unknown",
     top_family_count |-> 0, family_consensus_frac |-> 0, is_single_family |-> TRUE,
     cross_family_score |-> 0]

\* Lines 407-458; family_counts as the (family, count) pairs of the Counter.
analyze_family_diversity(list) ==
    LET \* list(Counter(list).keys()): the distinct elements in order of first occurrence.
        RECURSIVE counter_keys(_, _)
        counter_keys(list1, i) ==
            IF i > Len(list1) THEN <<>>
            ELSE IF first_index(list1, list1[i]) = i THEN <<list1[i]>> \o counter_keys(list1, i + 1)
            ELSE counter_keys(list1, i + 1)
    IN IF Len(list) = 0 THEN EmptyDiversity
       ELSE LET families == [i \in 1..Len(list) |-> classify_replicon_family(list[i])]
                pairs == most_common(families)
                total == Len(families)
            IN [families |-> counter_keys(families, 1),
                family_counts |-> [i \in 1..Len(counter_keys(families, 1)) |->
                                     <<counter_keys(families, 1)[i],
                                       list_count(families, counter_keys(families, 1)[i])>>],
                n_families |-> Len(pairs),
                top_family |-> pairs[1][1],
                top_family_count |-> pairs[1][2],
                family_consensus_frac |-> round3(pairs[1][2], total),
                is_single_family |-> Len(pairs) = 1,
                cross_family_score |-> cross_family_score(pairs, total)]

\* analyze_family_diversity applied on its own to a list, the empty list
\* included; main() applies it to the non-empty lists only (line 548).
Call_analyze_family_diversity ==
    /\ family_result = NotApplied
    /\ family_result' = analyze_family_diversity(replicon_list)
    /\ UNCHANGED <<replicon_list, threshold, consensus_result, fn_vars, cmp_vars, pl_vars>>

(***************************************************************************)
(* generate_chromosome_lists.py: RepliconPlacementSelector                 *)
(* A row is a record of its cells (str).  A line of a list file is the     *)
(* tuple of its tab-separated fields.  Thresholds and percentages are      *)
(* compared exactly, as fractions in hundredths.                           *)
(***************************************************************************)
RECURSIVE sorted_strs(_)
sorted_strs(S) ==
    IF S = {} THEN <<>>
    ELSE LET m == CHOOSE x \in S : \A y \in S \ {x} : str_less(x, y)
         IN <<m>> \o sorted_strs(S \ {m})

\* Lines 43-47: contig_id.strip().split()[0]; an empty list has no [0].
parse_contig_name(contig_id) ==
    LET \* Length of the first whitespace-free run of t from position i.
        RECURSIVE token_len(_, _)
        token_len(t, i) ==
            IF i <= Len(t) /\ CharAt(t, i) \notin Whitespace THEN 1 + token_len(t, i + 1) ELSE 0
    IN LET t == str_strip(contig_id)
       IN IF t = "" THEN [raised |-> "IndexError", value |-> ""]
          ELSE [raised |-> "none", value |-> SubSeq(t, 1, token_len(t, 1))]

\* Lines 50-59.
infer_topology(plasmid_name) ==
    LET n == str_strip(str_lower(plasmid_name))
    IN IF str_startswith(n, "cp") THEN "circular"
       ELSE IF str_startswith(n, "lp") \/ n = "chromosome" THEN "linear"
       ELSE "linear"

replace_plus(name) ==
    LET \* str.replace('+', '-')
        RECURSIVE replace_plus_from(_, _)
        replace_plus_from(name1, i) ==
            IF i > Len(name1) THEN ""
            ELSE (IF CharAt(name1, i) = "+" THEN "-" ELSE CharAt(name1, i))
                    \o replace_plus_from(name1, i + 1)
    IN replace_plus_from(name, 1)

\* sanitize_replicon_name without the renaming of the chromosome.
sanitize_replicon_name_no_main(name) == replace_plus(name)

\* Lines 63-71.
sanitize_replicon_name(name) ==
    LET n == replace_plus(name)
    IN IF str_lower(n) = "chromosome" THEN "main" ELSE n

\* Lines 74-80.
infer_chromosome_type(plasmid_name) ==
    IF str_strip(str_lower(plasmid_name)) = "chromosome" THEN "Chromosome" ELSE "Plasmid"

\* The title case of the letters below U+0100 that have one below U+0100
\* ("ß" becomes "Ss"), written as the characters themselves.
TitleOf ==
    ("a" :> "A") @@ ("b" :> "B") @@ ("c" :> "C") @@ ("d" :> "D") @@ ("e" :> "E") @@ ("f" :> "F") @@
    ("g" :> "G") @@ ("h" :> "H") @@ ("i" :> "I") @@ ("j" :> "J") @@ ("k" :> "K") @@ ("l" :> "L") @@
    ("m" :> "M") @@ ("n" :> "N") @@ ("o" :> "O") @@ ("p" :> "P") @@ ("q" :> "Q") @@ ("r" :> "R") @@
    ("s" :> "S") @@ ("t" :> "T") @@ ("u" :> "U") @@ ("v" :> "V") @@ ("w" :> "W") @@ ("x" :> "X") @@
    ("y" :> "Y") @@ ("z" :> "Z") @@ ("ß" :> "Ss") @@ ("à" :> "À") @@ ("á" :> "Á") @@ ("â" :> "Â") @@
    ("ã" :> "Ã") @@ ("ä" :> "Ä") @@ ("å" :> "Å") @@ ("æ" :> "Æ") @@ ("ç" :> "Ç") @@ ("è" :> "È") @@
    ("é" :> "É") @@ ("ê" :> "Ê") @@ ("ë" :> "Ë") @@ ("ì" :> "Ì") @@ ("í" :> "Í") @@ ("î" :> "Î") @@
    ("ï" :> "Ï") @@ ("ð" :> "Ð") @@ ("ñ" :> "Ñ") @@ ("ò" :> "Ò") @@ ("ó" :> "Ó") @@ ("ô" :> "Ô") @@
    ("õ" :> "Õ") @@ ("ö" :> "Ö") @@ ("ø" :> "Ø") @@ ("ù" :> "Ù") @@ ("ú" :> "Ú") @@ ("û" :> "Û") @@
    ("ü" :> "Ü") @@ ("ý" :> "Ý") @@ ("þ" :> "Þ")

\* str.capitalize()
str_capitalize(t) ==
    LET \* The letters below U+0100 that str.capitalize() changes; the title cases of
        \* U+00B5 and U+00FF are above U+00FF, beyond the characters of a str here.
        Cased == DOMAIN TitleOf \cup {"µ", "ÿ"}

        \* The first character of str.capitalize().
        UpperChar(c) == IF c \in Cased THEN TitleOf[c] ELSE c
    IN IF Len(t) = 0 THEN "" ELSE UpperChar(CharAt(t, 1)) \o str_lower(SubSeq(t, 2, Len(t)))

\* Lines 83-87.
format_topology(topology, chrom_type) == str_capitalize(topology) \o "-" \o chrom_type

(***************************************************************************)
(* Python's float (the IEEE 754 double) and int                            *)
(***************************************************************************)
\* A natural number of any size is the sequence of its digits in base 2^15,
\* the least significant first and the last one not 0; <<>> is 0.
BigBase == 32768

\* The digit of a at position i, 0 beyond its last one.
big_digit(a, i) == IF i <= Len(a) THEN a[i] ELSE 0

\* The operations below work on a range lo..hi of positions by halves, the
\* carry of the lower half going into the upper one.

\* a without the zeros after its last digit.
big_trim(a) ==
    LET \* The highest position of lo..hi where a is not 0, or 0.
        RECURSIVE top_range(_, _, _)
        top_pick(t, a1, lo, hi) == IF t # 0 THEN t ELSE top_range(a1, lo, hi)

        top_range(a2, lo, hi) ==
            IF lo = hi THEN (IF a2[lo] # 0 THEN lo ELSE 0)
            ELSE top_pick(top_range(a2, ((lo + hi) \div 2) + 1, hi), a2, lo, (lo + hi) \div 2)
    IN IF Len(a) = 0 \/ a[Len(a)] # 0 THEN a ELSE SubSeq(a, 1, top_range(a, 1, Len(a)))

mul_cat(left, right) == <<left \o right[1], right[2]>>

carry_out(r) == IF r[2] = 0 THEN r[1] ELSE Append(r[1], r[2])

\* a * s + c for 1 <= s < 2^15 and 0 <= c < 2^15.
big_mul_small(a, s, c) ==
    LET \* a[lo..hi] * s + c: the pair of the digits and of the carry.
        RECURSIVE mul_range(_, _, _, _, _)
        mul_join(a3, s1, left, lo, hi) == mul_cat(left[1], mul_range(a3, s1, left[2], lo, hi))

        mul_range(a4, s2, c1, lo, hi) ==
            IF lo = hi
            THEN <<<<(a4[lo] * s2 + c1) % BigBase>>, (a4[lo] * s2 + c1) \div BigBase>>
            ELSE mul_join(a4, s2, mul_range(a4, s2, c1, lo, (lo + hi) \div 2), ((lo + hi) \div 2) + 1, hi)
    IN IF Len(a) = 0 THEN (IF c = 0 THEN <<>> ELSE <<c>>)
       ELSE carry_out(mul_range(a, s, c, 1, Len(a)))

\* a + b
big_add(a, b) ==
    LET \* a[lo..hi] + b[lo..hi] + c: the pair of the digits and of the carry.
        RECURSIVE add_range(_, _, _, _, _)
        add_join(a5, b1, left, lo, hi) == mul_cat(left[1], add_range(a5, b1, left[2], lo, hi))

        add_range(a6, b2, c, lo, hi) ==
            IF lo = hi
            THEN <<<<(big_digit(a6, lo) + big_digit(b2, lo) + c) % BigBase>>,
                   (big_digit(a6, lo) + big_digit(b2, lo) + c) \div BigBase>>
            ELSE add_join(a6, b2, add_range(a6, b2, c, lo, (lo + hi) \div 2), ((lo + hi) \div 2) + 1, hi)
    IN IF Len(a) = 0 THEN b
       ELSE IF Len(b) = 0 THEN a
       ELSE carry_out(add_range(a, b, 0, 1, IF Len(a) > Len(b) THEN Len(a) ELSE Len(b)))

\* a - b for a >= b.
big_sub(a, b) ==
    LET \* a[lo..hi] - b[lo..hi] - c: the pair of the digits and of the borrow.
        RECURSIVE sub_range(_, _, _, _, _)
        sub_join(a7, b3, left, lo, hi) == mul_cat(left[1], sub_range(a7, b3, left[2], lo, hi))

        sub_range(a8, b4, c, lo, hi) ==
            IF lo = hi
            THEN <<<<(a8[lo] - big_digit(b4, lo) - c + BigBase) % BigBase>>,
                   IF a8[lo] - big_digit(b4, lo) - c < 0 THEN 1 ELSE 0>>
            ELSE sub_join(a8, b4, sub_range(a8, b4, c, lo, (lo + hi) \div 2), ((lo + hi) \div 2) + 1, hi)
    IN IF Len(b) = 0 THEN a ELSE big_trim(sub_range(a, b, 0, 1, Len(a))[1])

\* -1, 0 or 1 as a < b, a = b or a > b.
big_cmp(a, b) ==
    LET \* -1, 0 or 1 as a < b, a = b or a > b on the positions lo..hi.
        RECURSIVE cmp_range(_, _, _, _)
        cmp_pick(c, a9, b5, lo, hi) == IF c # 0 THEN c ELSE cmp_range(a9, b5, lo, hi)

        cmp_range(a10, b6, lo, hi) ==
            IF lo = hi THEN (IF a10[lo] < b6[lo] THEN -1 ELSE IF a10[lo] > b6[lo] THEN 1 ELSE 0)
            ELSE cmp_pick(cmp_range(a10, b6, ((lo + hi) \div 2) + 1, hi), a10, b6, lo, (lo + hi) \div 2)
    IN IF Len(a) # Len(b) THEN (IF Len(a) < Len(b) THEN -1 ELSE 1)
       ELSE IF Len(a) = 0 THEN 0
       ELSE cmp_range(a, b, 1, Len(a))

RECURSIVE pow2(_)
pow2(n) == IF n = 0 THEN 1 ELSE 2 * pow2(n - 1)

\* a * 2^k
big_shl(a, k) ==
    IF Len(a) = 0 THEN <<>>
    ELSE [i \in 1..(k \div 15) |-> 0] \o big_mul_small(a, pow2(k % 15), 0)

\* a \div 2^k
big_shr(a, k) ==
    LET \* a \div 2^s for 0 <= s < 15.
        big_shr_small(a11, s) ==
            big_trim([i \in 1..Len(a11) |->
                         (a11[i] \div pow2(s)) + (big_digit(a11, i + 1) % pow2(s)) * pow2(15 - s)])
    IN IF k \div 15 >= Len(a) THEN <<>>
       ELSE big_shr_small(SubSeq(a, (k \div 15) + 1, Len(a)), k % 15)

\* The number of bits of a: 2^(bits - 1) <= a < 2^bits.
big_bits(a) ==
    LET RECURSIVE small_bits(_)
        small_bits(n) == IF n = 0 THEN 0 ELSE 1 + small_bits(n \div 2)
    IN IF Len(a) = 0 THEN 0 ELSE 15 * (Len(a) - 1) + small_bits(a[Len(a)])

\* a * 10^n, by halves of n.
RECURSIVE big_mul_pow10(_, _)
big_mul_pow10(a, n) ==
    LET mul_pow10_then(x, n3) == IF Len(x) = 0 THEN <<>> ELSE big_mul_pow10(x, n3)
    IN IF n = 0 THEN a
       ELSE IF n <= 4 THEN big_mul_small(a, <<10, 100, 1000, 10000>>[n], 0)
       ELSE mul_pow10_then(big_mul_pow10(a, n \div 2), n - (n \div 2))

\* Value of a str of decimal digits ("" is 0), below 2^31.
RECURSIVE digits_value(_)
digits_value(t) ==
    IF Len(t) = 0 THEN 0
    ELSE 10 * digits_value(SubSeq(t, 1, Len(t) - 1))
            + (OrdOf[CharAt(t, Len(t))] - 48)

\* Value of a str of decimal digits of any length, by halves of the str.
RECURSIVE big_of_digits(_)
big_of_digits(t) ==
    IF Len(t) <= 4 THEN (IF digits_value(t) = 0 THEN <<>> ELSE <<digits_value(t)>>)
    ELSE big_add(big_mul_pow10(big_of_digits(SubSeq(t, 1, Len(t) \div 2)),
                               Len(t) - (Len(t) \div 2)),
                 big_of_digits(SubSeq(t, (Len(t) \div 2) + 1, Len(t))))

\* t without its leading zeros.
strip_zeros(t) ==
    IF \A i \in 1..Len(t) : CharAt(t, i) = "0" THEN ""
    ELSE SubSeq(t, CHOOSE i \in 1..Len(t) :
                       /\ CharAt(t, i) # "0"
                       /\ \A j \in 1..(i - 1) : CharAt(t, j) = "0",
                Len(t))

\* A float is nan, an infinity, or the number sign * mant * 2^exp with
\* 2^52 <= mant < 2^53 and -1074 <= exp <= 971, or mant < 2^52 and
\* exp = -1074 (the numbers below 2^-1022), or mant = 0 and exp = 0 (the two
\* zeros).
FloatNaN == [kind |-> "nan", sign |-> 1, mant |-> <<>>, exp |-> 0]
FloatInf(sign) == [kind |-> "inf", sign |-> sign, mant |-> <<>>, exp |-> 0]
FloatZero(sign) == [kind |-> "finite", sign |-> sign, mant |-> <<>>, exp |-> 0]

\* One bit of the quotient of R by T, R < 2 * T: qr is the pair of the
\* quotient so far and of R, the remainder is doubled for the next bit.
divide_step(qr, T) ==
    IF big_cmp(qr[2], T) >= 0
    THEN <<big_mul_small(qr[1], 2, 1), big_mul_small(big_sub(qr[2], T), 2, 0)>>
    ELSE <<big_mul_small(qr[1], 2, 0), big_mul_small(qr[2], 2, 0)>>

\* n bits of the quotient, by halves of n: the pair of the quotient and of the
\* remainder times 2^n.
RECURSIVE divide_bits(_, _, _)
divide_then(qr, T, n) == IF Len(qr) = 2 THEN divide_bits(qr, T, n) ELSE qr
divide_bits(qr, T, n) ==
    IF n = 1 THEN divide_step(qr, T)
    ELSE divide_then(divide_bits(qr, T, n \div 2), T, n - (n \div 2))

\* Round to nearest, ties to the even mantissa: qr is the quotient and the
\* remainder of divide_bits, the remainder is compared with half the divisor.
round_nearest(sign, qr, T, e) ==
    LET \* The float of mantissa q <= 2^53 and exponent e >= -1074: 2^53 is
        \* 2^52 * 2, and a number from 2^1024 on is an infinity.
        float_pack(sign1, q, e1) ==
            IF Len(q) = 0 THEN FloatZero(sign1)
            ELSE IF e1 + (IF big_bits(q) = 54 THEN 1 ELSE 0) > 971 THEN FloatInf(sign1)
            ELSE [kind |-> "finite", sign |-> sign1,
                  mant |-> big_shr(q, IF big_bits(q) = 54 THEN 1 ELSE 0),
                  exp |-> e1 + (IF big_bits(q) = 54 THEN 1 ELSE 0)]
    IN float_pack(sign,
                  big_mul_small(qr[1], 1,
                                IF \/ big_cmp(qr[2], T) > 0
                                   \/ (qr[2] = T /\ Len(qr[1]) > 0 /\ qr[1][1] % 2 = 1)
                                THEN 1 ELSE 0),
                  e)

\* The float nearest to (N / D) * 2^e for 2^52 * D > N / 2 (T is 2^52 * D):
\* 53 bits of the quotient, then the rounding.
round_divide(sign, N, T, e) == round_nearest(sign, divide_bits(<<<<>>, N>>, T, 53), T, e)

\* Below 2^-1022 the exponent stays -1074 and the mantissa gets shorter; a
\* number below 2^-1075 is 0.
round_range(sign, N, D, e) ==
    IF e < -1074 - 53 THEN FloatZero(sign)
    ELSE round_divide(sign, N, big_shl(D, 52 + (IF e < -1074 THEN -1074 - e ELSE 0)),
                      IF e < -1074 THEN -1074 ELSE e)

\* N / D is in (2^52, 2^54): b is 1 when it is 2^53 or more, and D gets one
\* more bit.
round_scaled(sign, N, D, e, b) == round_range(sign, N, big_shl(D, b), e + b)

\* The float nearest to sign * (N / D) * 2^e for N, D > 0, d the number of
\* bits of N less that of D: N or D is scaled by the power of 2 that brings the
\* quotient to 53 bits.
round_bits(sign, N, D, e, d) ==
    round_scaled(sign, big_shl(N, IF d < 53 THEN 53 - d ELSE 0),
                 big_shl(D, IF d > 53 THEN d - 53 ELSE 0), e + d - 53,
                 IF big_cmp(big_shl(N, IF d < 53 THEN 53 - d ELSE 0),
                            big_shl(D, 53 + (IF d > 53 THEN d - 53 ELSE 0))) >= 0
                 THEN 1 ELSE 0)

round_quotient(sign, N, D, e) == round_bits(sign, N, D, e, big_bits(N) - big_bits(D))

float_of_decimal(sign, digits, exp) ==
    LET \* The float of the decimal sign * digits * 10^exp, digits without leading
        \* zeros: an infinity from 10^309 on, zero below 10^-324, and the float
        \* nearest to the decimal in between.
        float_of_digits(sign2, digits1, exp1) ==
            IF Len(digits1) = 0 THEN FloatZero(sign2)
            ELSE IF Len(digits1) + exp1 > 309 THEN FloatInf(sign2)
            ELSE IF Len(digits1) + exp1 < -323 THEN FloatZero(sign2)
            ELSE round_quotient(sign2, big_mul_pow10(big_of_digits(digits1), IF exp1 > 0 THEN exp1 ELSE 0),
                                big_mul_pow10(<<1>>, IF exp1 < 0 THEN -exp1 ELSE 0), 0)
    IN float_of_digits(sign, strip_zeros(digits), exp)

\* The blanks float() skips around a number among the code points below
\* U+0100: tab, line feed, form feed, carriage return and space, then, written
\* as the characters themselves, U+000B, U+0085 and U+00A0.  U+001C..U+001F,
\* which str.strip() removes, are not skipped.
FloatBlanks == {" ", "\t", "\n", "\f", "\r", "", "", " "}

\* Number of decimal digits of t from position i on.
digit_run(t, i) ==
    IF \A j \in i..Len(t) : CharAt(t, j) \in Digits
    THEN (IF i > Len(t) THEN 0 ELSE Len(t) - i + 1)
    ELSE (CHOOSE j \in i..Len(t) :
              /\ CharAt(t, j) \notin Digits
              /\ \A m \in i..(j - 1) : CharAt(t, m) \in Digits) - i

\* What float() reads in a str: an error, "inf", "nan", or a number with its
\* sign, its digits and its power of 10.
FloatSyntaxError == [form |-> "error", sign |-> 1, digits |-> "", exp |-> 0]

\* float(cell) of a str: blanks around the number are skipped; then an
\* optional sign and "inf", "infinity" or "nan" in any letter case, or digits
\* with an optional point (a digit on at least one side of it) and an optional
\* exponent e[sign]digits; anything else raises ValueError.
float_parse(cell) ==
    LET \* The number after the mantissa: nothing more, or an exponent e[sign]digits
        \* that ends the str.  p is the position after the mantissa, n2 the number of
        \* digits after the point.
        float_exponent(body, sign, digits, n2, p) ==
            LET \* Value of the digits of an exponent; from nine digits on the float is an
                \* infinity or zero whatever the mantissa.
                exponent_value(t) ==
                    IF Len(strip_zeros(t)) > 8 THEN 100000000 ELSE digits_value(strip_zeros(t))
            IN IF p = Len(body) + 1
               THEN [form |-> "number", sign |-> sign, digits |-> digits, exp |-> -n2]
               ELSE IF CharAt(body, p) \notin {"e", "E"} THEN FloatSyntaxError
               ELSE LET esigned == p < Len(body) /\ CharAt(body, p + 1) \in {"+", "-"}
                        e0 == IF esigned THEN p + 2 ELSE p + 1
                    IN IF e0 > Len(body) \/ e0 + digit_run(body, e0) # Len(body) + 1
                       THEN FloatSyntaxError
                       ELSE [form |-> "number", sign |-> sign, digits |-> digits,
                             exp |-> (IF CharAt(body, p + 1) = "-" THEN -1 ELSE 1)
                                         * exponent_value(SubSeq(body, e0, Len(body))) - n2]

        \* The mantissa: n1 digits, then an optional point and n2 digits, a digit on at
        \* least one side of the point.
        float_fraction(body, sign, n1, n2) ==
            IF n1 + n2 = 0 THEN FloatSyntaxError
            ELSE float_exponent(body, sign,
                                SubSeq(body, 1, n1) \o SubSeq(body, n1 + 2, n1 + 1 + n2),
                                n2, n1 + 2 + n2)

        float_mantissa(body, sign, n1) ==
            IF n1 < Len(body) /\ CharAt(body, n1 + 1) = "."
            THEN float_fraction(body, sign, n1, digit_run(body, n1 + 2))
            ELSE IF n1 = 0 THEN FloatSyntaxError
            ELSE float_exponent(body, sign, SubSeq(body, 1, n1), 0, n1 + 1)

        \* After the sign: "inf", "infinity" or "nan" in any letter case, or a number.
        float_unsigned(body, sign) ==
            IF Len(body) <= 8 /\ str_lower(body) \in {"inf", "infinity", "nan"}
            THEN [form |-> SubSeq(str_lower(body), 1, 3), sign |-> sign, digits |-> "", exp |-> 0]
            ELSE float_mantissa(body, sign, digit_run(body, 1))

        float_signed(u) ==
            float_unsigned(IF Len(u) > 0 /\ CharAt(u, 1) \in {"+", "-"} THEN SubSeq(u, 2, Len(u)) ELSE u,
                           IF Len(u) > 0 /\ CharAt(u, 1) = "-" THEN -1 ELSE 1)

        \* The str without its blanks at both ends and without its underscores.
        float_clean(cell1) ==
            LET RECURSIVE float_lstrip(_)
                float_lstrip(s) ==
                    IF Len(s) > 0 /\ CharAt(s, 1) \in FloatBlanks
                    THEN float_lstrip(SubSeq(s, 2, Len(s)))
                    ELSE s

                RECURSIVE float_rstrip(_)
                float_rstrip(s) ==
                    IF Len(s) > 0 /\ CharAt(s, Len(s)) \in FloatBlanks
                    THEN float_rstrip(SubSeq(s, 1, Len(s) - 1))
                    ELSE s

                \* float() accepts an underscore between two digits only.
                underscores_ok(t) ==
                    \A i \in 1..Len(t) :
                        CharAt(t, i) = "_" =>
                            /\ i > 1 /\ i < Len(t)
                            /\ CharAt(t, i - 1) \in Digits /\ CharAt(t, i + 1) \in Digits

                RECURSIVE without_underscores(_, _)
                without_underscores(t, i) ==
                    IF \A j \in i..Len(t) : CharAt(t, j) # "_" THEN SubSeq(t, i, Len(t))
                    ELSE (IF CharAt(t, i) = "_" THEN "" ELSE CharAt(t, i)) \o without_underscores(t, i + 1)

                \* t without its underscores; "_" (no number) when an underscore is misplaced.
                float_underscores(t) == IF underscores_ok(t) THEN without_underscores(t, 1) ELSE "_"
            IN float_underscores(float_rstrip(float_lstrip(cell1)))

        FloatValueError == [raised |-> "ValueError", value |-> FloatNaN]

        \* The float of what was read, or the ValueError.
        float_value(p) ==
            IF p.form = "error" THEN FloatValueError
            ELSE [raised |-> "none",
                  value |-> IF p.form = "inf" THEN FloatInf(p.sign)
                            ELSE IF p.form = "nan" THEN FloatNaN
                            ELSE float_of_decimal(p.sign, p.digits, p.exp)]
    IN float_value(float_signed(float_clean(cell)))

\* The contig_len cells of the classified-mode tables explored below.
LengthCells == <<"1000", "inf", "900.7", "1e3", " 400 ", "1000", "inf", "n/a", "1000">>

\* The cells (ref_length, ref_covered_length, query_coverage_percent,
\* overall_percent_identity) of the complete-mode tables explored below.
CompleteCells ==
    <<<<"1000", "950", "90", "90">>,
      <<"1000", "949", "100", "100">>,
      <<"1000", "1000", "89.9", "100">>,
      <<"1e3", "1000.0", " 100 ", "89">>,
      <<"0", "0", "100", "100">>,
      <<"", "950", "100", "100">>,
      <<"1000", "1000", "n/a", "100">>,
      <<"1000", "1000", "100", "">>,
      <<"1000", "950", "98.5", "99.2">>,
      <<"1000", "1000", "100", "100">>,
      <<"1000", "1000", "100", "100">>,
      <<"1000", "1000", "100", "100">>,
      <<"2.2", "2.09", "100", "100">>>>

NumberCells ==
    {LengthCells[k] : k \in 1..Len(LengthCells)}
        \cup {CompleteCells[k][j] : k \in 1..Len(CompleteCells), j \in 1..4}

\* float(cell) is computed once for the cells of the tables.
FloatOfCell == {<<c, float_parse(c)>> : c \in NumberCells}

py_float(cell) ==
    IF cell \in NumberCells THEN (CHOOSE p \in FloatOfCell : p[1] = cell)[2]
    ELSE float_parse(cell)

\* x / y for floats, y not a zero (line 96 returns before line 98 divides by a
\* reference length that is <= 0; the other divisor is 100.0).
float_quotient(x, y) ==
    IF x.kind = "nan" \/ y.kind = "nan" THEN FloatNaN
    ELSE IF x.kind = "inf" THEN (IF y.kind = "inf" THEN FloatNaN ELSE FloatInf(x.sign * y.sign))
    ELSE IF y.kind = "inf" \/ Len(x.mant) = 0 THEN FloatZero(x.sign * y.sign)
    ELSE round_quotient(x.sign * y.sign, x.mant, y.mant, x.exp - y.exp)

\* x >= y for floats: false when one of them is nan; the two zeros are equal.
float_ge(x, y) ==
    LET \* -1, 0 or 1 as |x| < |y|, |x| = |y| or |x| > |y|, for floats that are numbers.
        float_cmp_abs(x2, y1) ==
            IF x2.kind = "inf" \/ y1.kind = "inf"
            THEN (IF x2.kind = y1.kind THEN 0 ELSE IF x2.kind = "inf" THEN 1 ELSE -1)
            ELSE IF Len(x2.mant) = 0 \/ Len(y1.mant) = 0
            THEN (IF Len(x2.mant) = Len(y1.mant) THEN 0 ELSE IF Len(x2.mant) = 0 THEN -1 ELSE 1)
            ELSE IF x2.exp # y1.exp THEN (IF x2.exp < y1.exp THEN -1 ELSE 1)
            ELSE big_cmp(x2.mant, y1.mant)
    IN IF x.kind = "nan" \/ y.kind = "nan" THEN FALSE
       ELSE IF x.kind = "finite" /\ Len(x.mant) = 0 /\ y.kind = "finite" /\ Len(y.mant) = 0
       THEN TRUE
       ELSE IF x.sign # y.sign
       THEN (IF x.sign = 1 THEN TRUE
             ELSE x.kind = "finite" /\ Len(x.mant) = 0 /\ y.kind = "finite" /\ Len(y.mant) = 0)
       ELSE IF x.sign = 1 THEN float_cmp_abs(x, y) >= 0
       ELSE float_cmp_abs(x, y) <= 0

\* f <= 0 for a float.
float_le_zero(f) ==
    \/ f.kind = "inf" /\ f.sign = -1
    \/ f.kind = "finite" /\ (Len(f.mant) = 0 \/ f.sign = -1)

\* An int is sign * mag, mag a natural number of any size; 0 has sign 1.
IntZero == [sign |-> 1, mag |-> <<>>]

\* a < b for ints.
int_less(a, b) ==
    IF a.sign # b.sign THEN a.sign < b.sign
    ELSE IF a.sign = 1 THEN big_cmp(a.mag, b.mag) < 0
    ELSE big_cmp(a.mag, b.mag) > 0

\* int(f) of a float: the number truncated towards zero.
py_int(f) ==
    LET int_of(sign, mag) == IF Len(mag) = 0 THEN IntZero ELSE [sign |-> sign, mag |-> mag]
    IN IF f.kind = "nan" THEN [raised |-> "ValueError", value |-> IntZero]
       ELSE IF f.kind = "inf" THEN [raised |-> "OverflowError", value |-> IntZero]
       ELSE [raised |-> "none",
             value |-> int_of(f.sign, big_shr(big_shl(f.mant, IF f.exp > 0 THEN f.exp ELSE 0),
                                              IF f.exp < 0 THEN -f.exp ELSE 0))]

\* Lines 190-193: clen = int(float(cell)), 0 on ValueError; the OverflowError
\* of an infinite length is not caught.
contig_len_of(row) ==
    LET \* Line 191 for the result f of float(): an exception of float() or a
        \* ValueError of int() is the one line 192 catches.
        int_or_zero(f) ==
            IF f.raised # "none" \/ f.value.kind = "nan" THEN [raised |-> "none", value |-> IntZero]
            ELSE py_int(f.value)
    IN int_or_zero(py_float(row.contig_len))

\* 100.0
Hundred == float_of_decimal(1, "100", 0)

QuotientOfCells ==
    LET \* The quotients of lines 98, 109 and 113 are computed once for the cells of
        \* the tables: covered by reference length, and each cell by 100.0.
        QuotientCells ==
            {<<CompleteCells[k][2], CompleteCells[k][1]>> : k \in 1..Len(CompleteCells)}
                \cup {<<c, "100">> : c \in NumberCells}

        QuotientFloats ==
            {p \in {[j \in 1..2 |-> py_float(c[j])] : c \in QuotientCells} :
                p[1].raised = "none" /\ p[2].raised = "none" /\ ~float_le_zero(p[2].value)}
    IN {<<p[1].value, p[2].value, float_quotient(p[1].value, p[2].value)>> : p \in QuotientFloats}

float_div(x, y) ==
    IF \E p \in QuotientOfCells : p[1] = x /\ p[2] = y
    THEN (CHOOSE p \in QuotientOfCells : p[1] = x /\ p[2] = y)[3]
    ELSE float_quotient(x, y)

\* The float of a threshold given in hundredths: float("0.95") for 95.
float_of_hundredths(t) == float_of_decimal(1, int_str(t), -2)

\* (--ref-cov, --query-cov, --identity): the defaults of lines 38-40, and 0.
CompletenessPool == {<<95, 90, 90>>, <<0, 0, 0>>}

ThresholdFloats == {<<t[j], float_of_hundredths(t[j])>> : t \in CompletenessPool, j \in 1..3}

threshold_float(t) ==
    IF \E p \in ThresholdFloats : p[1] = t
    THEN (CHOOSE p \in ThresholdFloats : p[1] = t)[2]
    ELSE float_of_hundredths(t)

\* Lines 90-99: None, or the float covered / reference.
compute_ref_coverage(ref_covered_length, ref_length) ==
    LET \* Lines 93-98 for the results rcl and rl of float().
        ref_coverage_of(rcl, rl) ==
            IF rcl.raised # "none" \/ rl.raised # "none" THEN None
            ELSE IF float_le_zero(rl.value) THEN None
            ELSE Some(float_div(rcl.value, rl.value))

        \* Both lengths as float() gives them.
        lengths_of(cells) == [j \in 1..2 |-> py_float(cells[j])]
    IN ref_coverage_of(lengths_of(<<ref_covered_length, ref_length>>)[1],
                       lengths_of(<<ref_covered_length, ref_length>>)[2])

\* Lines 108-115: q_cov and ident.
percents_of(row) ==
    LET \* Lines 108-115 for the result f of float(): f / 100.0, and 0.0 on ValueError.
        percent_of(f) == IF f.raised # "none" THEN FloatZero(1) ELSE float_div(f.value, Hundred)

        percent_or_zero(cell) == percent_of(py_float(cell))
    IN [j \in 1..2 |-> percent_or_zero(<<row.query_coverage_percent,
                                         row.overall_percent_identity>>[j])]

\* The floats of the three thresholds.
thresholds_of(t) == [j \in 1..3 |-> threshold_float(t[j])]

\* Lines 116-120 without `ref_cov is not None`.
passes_thresholds_no_ref(rc, pc, th) ==
    /\ (rc # None => float_ge(rc[1], th[1]))
    /\ float_ge(pc[1], th[2])
    /\ float_ge(pc[2], th[3])

\* passes_completeness accepting a fragment whose reference length is unknown.
passes_completeness_no_ref(row, ref_cov_thresh, query_cov_thresh, identity_thresh) ==
    passes_thresholds_no_ref(compute_ref_coverage(row.ref_covered_length, row.ref_length),
                             percents_of(row),
                             thresholds_of(<<ref_cov_thresh, query_cov_thresh, identity_thresh>>))

\* Lines 102-120.
passes_completeness(row, ref_cov_thresh, query_cov_thresh, identity_thresh) ==
    LET \* Lines 116-120.
        passes_thresholds(rc, pc, th) ==
            /\ rc # None
            /\ float_ge(rc[1], th[1])
            /\ float_ge(pc[1], th[2])
            /\ float_ge(pc[2], th[3])
    IN passes_thresholds(compute_ref_coverage(row.ref_covered_length, row.ref_length),
                         percents_of(row),
                         thresholds_of(<<ref_cov_thresh, query_cov_thresh, identity_thresh>>))

\* Lines 161-166: the rows of one assembly, in file order.
RECURSIVE select_rows(_, _)
select_rows(rws, aid) ==
    IF Len(rws) = 0 THEN <<>>
    ELSE (IF str_strip(rws[1].assembly_id) = aid THEN <<rws[1]>> ELSE <<>>)
            \o select_rows(SubSeq(rws, 2, Len(rws)), aid)

assembly_ids(rws) ==
    {str_strip(rws[i].assembly_id) : i \in 1..Len(rws)} \ {""}

NoLines ==
    [raised |-> "none", chrom_lines |-> <<>>, unloc_lines |-> <<>>,
     placed |-> 0, unlocalised |-> 0, unplaced |-> 0]

is_classified(call) == call # "" /\ str_lower(call) # "unclassified"

\* Lines 184-194: the entries <<call, clen, row>> appended to by_replicon, in
\* row order; rows without a call are left out (and counted unplaced).
RECURSIVE classified_entries(_, _)
classified_entries(contigs, i) ==
    IF i > Len(contigs) THEN <<>>
    ELSE LET call == str_strip(contigs[i].plasmid_name)
         IN (IF is_classified(call)
             THEN <<<<call, contig_len_of(contigs[i]).value, contigs[i]>>>>
             ELSE <<>>) \o classified_entries(contigs, i + 1)

\* Lines 184-194: the position of the first row from i on that carries a call
\* and whose length raises an exception except does not catch, or 0.
RECURSIVE first_raising_len(_, _)
first_raising_len(contigs, i) ==
    IF i > Len(contigs) THEN 0
    ELSE IF /\ is_classified(str_strip(contigs[i].plasmid_name))
            /\ contig_len_of(contigs[i]).raised # "none"
    THEN i
    ELSE first_raising_len(contigs, i + 1)

\* Lines 184-194 ended by the exception of row c: the rows before it without
\* a call are counted, nothing is placed.
grouping_raised(contigs, c) ==
    [NoLines EXCEPT !.raised = contig_len_of(contigs[c]).raised,
                    !.unplaced = (c - 1) - Len(classified_entries(SubSeq(contigs, 1, c - 1), 1))]

\* by_replicon[replicon]: the (clen, row) tuples of one call, in row order.
RECURSIVE by_replicon(_, _, _)
by_replicon(entries, replicon, i) ==
    IF i > Len(entries) THEN <<>>
    ELSE (IF entries[i][1] = replicon THEN <<<<entries[i][2], entries[i][3]>>>> ELSE <<>>)
            \o by_replicon(entries, replicon, i + 1)

\* list.sort(key=lambda x: x[0], reverse=True): stable, by descending length.
RECURSIVE sort_by_len_desc(_)
sort_by_len_desc(list) ==
    IF Len(list) = 0 THEN <<>>
    ELSE LET i == CHOOSE j \in 1..Len(list) :
                    /\ \A k \in 1..Len(list) : ~int_less(list[j][1], list[k][1])
                    /\ \A k \in 1..(j - 1) : int_less(list[k][1], list[j][1])
         IN <<list[i]>> \o sort_by_len_desc(SubSeq(list, 1, i - 1) \o SubSeq(list, i + 1, Len(list)))

\* Lines 202-220 for the sorted contig_list of one replicon, from position i.
RECURSIVE place_group(_, _, _, _, _)
place_group(replicon, ena_name, contig_list, i, acc) ==
    IF i > Len(contig_list) \/ acc.raised # "none" THEN acc
    ELSE LET object_name == parse_contig_name(str_strip(contig_list[i][2].contig_id))
         IN IF object_name.raised # "none"
            THEN [acc EXCEPT !.raised = object_name.raised]
            ELSE IF i = 1
            THEN place_group(replicon, ena_name, contig_list, i + 1,
                    [acc EXCEPT !.chrom_lines =
                                    Append(@, <<object_name.value, ena_name,
                                                format_topology(infer_topology(replicon),
                                                    infer_chromosome_type(replicon))>>),
                                !.placed = @ + 1])
            ELSE place_group(replicon, ena_name, contig_list, i + 1,
                    [acc EXCEPT !.unloc_lines = Append(@, <<object_name.value, ena_name>>),
                                !.unlocalised = @ + 1])

\* Lines 196-220 over the replicons from position g of their sorted order.
RECURSIVE place_groups(_, _, _, _)
place_groups(entries, replicons, g, acc) ==
    IF g > Len(replicons) \/ acc.raised # "none" THEN acc
    ELSE place_groups(entries, replicons, g + 1,
            place_group(replicons[g], sanitize_replicon_name(replicons[g]),
                        sort_by_len_desc(by_replicon(entries, replicons[g], 1)), 1, acc))

\* Classified mode keeping the primary sequence of the first replicon only.
place_classified_first_primary_only(contigs) ==
    LET entries == classified_entries(contigs, 1)
        r == place_groups(entries, sorted_strs({entries[i][1] : i \in 1..Len(entries)}), 1,
                          [NoLines EXCEPT !.unplaced = Len(contigs) - Len(entries)])
    IN IF first_raising_len(contigs, 1) > 0
       THEN grouping_raised(contigs, first_raising_len(contigs, 1))
       ELSE [r EXCEPT !.chrom_lines = IF Len(@) > 1 THEN <<@[1]>> ELSE @]

\* Lines 182-220.
place_classified(contigs) ==
    LET entries == classified_entries(contigs, 1)
    IN IF first_raising_len(contigs, 1) > 0
       THEN grouping_raised(contigs, first_raising_len(contigs, 1))
       ELSE place_groups(entries, sorted_strs({entries[i][1] : i \in 1..Len(entries)}), 1,
                         [NoLines EXCEPT !.unplaced = Len(contigs) - Len(entries)])

\* Lines 222-241 from row i of contigs.
RECURSIVE place_complete(_, _, _)
place_complete(contigs, i, acc) ==
    IF i > Len(contigs) THEN acc
    ELSE LET row == contigs[i]
             contig_id == str_strip(row.contig_id)
             plasmid_name == str_strip(row.plasmid_name)
         IN IF contig_id = "" \/ plasmid_name = ""
            THEN place_complete(contigs, i + 1, acc)
            ELSE IF passes_completeness(row, ref_cov, query_cov, identity)
            THEN place_complete(contigs, i + 1,
                    [acc EXCEPT !.chrom_lines =
                                    Append(@, <<parse_contig_name(contig_id).value,
                                                sanitize_replicon_name(plasmid_name),
                                                format_topology(infer_topology(plasmid_name),
                                                    infer_chromosome_type(plasmid_name))>>),
                                !.placed = @ + 1])
            ELSE place_complete(contigs, i + 1, [acc EXCEPT !.unplaced = @ + 1])

\* Lines 178-241: the lines and counts of one assembly.
place_assembly(contigs) ==
    IF mode = "classified" THEN place_classified(contigs)
    ELSE place_complete(contigs, 1, NoLines)

sorted_assemblies(rws) == sorted_strs(assembly_ids(rws))

PlIdle ==
    /\ classifier_rows = <<>> /\ mode = "complete"
    /\ ref_cov = 95 /\ query_cov = 90 /\ identity = 90 /\ dry_run = FALSE
    /\ assembly_order = <<>> /\ fieldnames = {}
    /\ asm_idx = 0 /\ chrom_files = EmptyDict /\ unloc_files = EmptyDict
    /\ dry_run_out = <<>>
    /\ total_chrom_files = 0 /\ total_unloc_files = 0 /\ total_placed = 0
    /\ total_unlocalised = 0 /\ total_unplaced = 0
    /\ assemblies_without_entries = <<>>
    /\ pl_pc = "idle" /\ pl_raised = "none"

\* Lines 177-272: one assembly.  An exception is caught nowhere and ends main();
\* the files of the assemblies before it stay written.
ProcessAssembly ==
    /\ pl_pc = "loop"
    /\ asm_idx <= Len(assembly_order)
    /\ \E assembly_id \in {assembly_order[asm_idx]} :
       \E r \in {place_assembly(select_rows(classifier_rows, assembly_id))} :
          IF r.raised # "none"
          THEN /\ pl_pc' = "error"
               /\ pl_raised' = r.raised
               /\ total_placed' = total_placed + r.placed
               /\ total_unlocalised' = total_unlocalised + r.unlocalised
               /\ total_unplaced' = total_unplaced + r.unplaced
               /\ UNCHANGED <<asm_idx, chrom_files, unloc_files, dry_run_out,
                              total_chrom_files, total_unloc_files,
                              assemblies_without_entries>>
          ELSE /\ total_placed' = total_placed + r.placed
               /\ total_unlocalised' = total_unlocalised + r.unlocalised
               /\ total_unplaced' = total_unplaced + r.unplaced
               /\ asm_idx' = asm_idx + 1
               /\ UNCHANGED <<pl_pc, pl_raised>>
               /\ IF r.chrom_lines = <<>>
                  THEN /\ assemblies_without_entries' =
                              Append(assemblies_without_entries, assembly_id)
                       /\ UNCHANGED <<chrom_files, unloc_files, dry_run_out,
                                      total_chrom_files, total_unloc_files>>
                  ELSE IF dry_run
                  THEN /\ dry_run_out' = Append(dry_run_out,
                              [assembly_id |-> assembly_id, chrom |-> r.chrom_lines,
                               unloc |-> r.unloc_lines])
                       /\ UNCHANGED <<chrom_files, unloc_files, total_chrom_files,
                                      total_unloc_files, assemblies_without_entries>>
                  ELSE /\ chrom_files' = chrom_files @@ (assembly_id :> r.chrom_lines)
                       /\ total_chrom_files' = total_chrom_files + 1
                       /\ IF r.unloc_lines # <<>>
                          THEN /\ unloc_files' = unloc_files @@ (assembly_id :> r.unloc_lines)
                               /\ total_unloc_files' = total_unloc_files + 1
                          ELSE UNCHANGED <<unloc_files, total_unloc_files>>
                       /\ UNCHANGED <<dry_run_out, assemblies_without_entries>>
    /\ UNCHANGED <<pl_inputs, fn_vars, cmp_vars, cons_vars>>

\* Lines 274-285: the summary after the last assembly.
PrintSummary ==
    /\ pl_pc = "loop"
    /\ asm_idx > Len(assembly_order)
    /\ pl_pc' = "done"
    /\ UNCHANGED <<pl_inputs, asm_idx, chrom_files, unloc_files, dry_run_out, pl_totals,
                   assemblies_without_entries, pl_raised, fn_vars, cmp_vars, cons_vars>>

(***************************************************************************)
(* Inputs of the pure functions                                            *)
(***************************************************************************)
CallCores ==
    {"", "NA", "None", "unclassified", "Chromosome", "chromosome", "plasmid_x",
     "lp28-4", "lp28-4:::lp17", "lp17:::lp54", "cp32-12", "cp32-1"}

RECURSIVE Repeat(_, _)
Repeat(c, n) == IF n = 0 THEN "" ELSE c \o Repeat(c, n - 1)

\* A core call, optionally with trailing '*' markers and blank padding.
Calls ==
    {Repeat(" ", l) \o c \o Repeat("*", k) \o Repeat(" ", r) :
        l \in 0..MaxPad, c \in CallCores, k \in 0..MaxStars, r \in 0..MaxPad}

NoResult == [fn |-> "none"]

FnIdle == fn_in = [old_call |-> "", new_call |-> ""] /\ fn_out = NoResult

InitFn ==
    /\ fn_in \in [old_call : Calls, new_call : Calls]
    /\ fn_out = NoResult
    /\ CmpIdle
    /\ ConsIdle
    /\ PlIdle

Call_categorize ==
    /\ fn_out = NoResult
    /\ fn_out' = [fn |-> "categorize",
                  result |-> categorize(fn_in.old_call, fn_in.new_call)]
    /\ UNCHANGED <<fn_in, cmp_vars, cons_vars, pl_vars>>

Call_normalize_call ==
    /\ fn_out = NoResult
    /\ fn_out' = [fn |-> "normalize_call", result |-> normalize_call(fn_in.old_call)]
    /\ UNCHANGED <<fn_in, cmp_vars, cons_vars, pl_vars>>

NextFn == Call_categorize \/ Call_normalize_call

SpecFn == InitFn /\ [][NextFn]_vars

(***************************************************************************)
(* Inputs of the functions of one call: the token set of the comparator    *)
(* and the family of the comparator and of the aggregator                  *)
(***************************************************************************)
FamilyCores ==
    {"", "NA", "unclassified", "Chromosome", "chromosome", "plasmid_x", "lp28-4",
     "lp28-4:::lp17", "cp32-1+5", "lp21-cp9", "bbk32-1", "x1+lp5", "LP28-1", "cp32-12"}

FamilyCalls ==
    {Repeat(" ", l) \o c \o Repeat("*", k) \o Repeat(" ", r) :
        l \in 0..MaxPad, c \in FamilyCores, k \in 0..MaxStars, r \in 0..MaxPad}

InitCall ==
    /\ fn_in \in [old_call : FamilyCalls, new_call : {""}]
    /\ fn_out = NoResult
    /\ CmpIdle
    /\ ConsIdle
    /\ PlIdle

Call_extract_base_plasmid_calls ==
    /\ fn_out = NoResult
    /\ fn_out' = [fn |-> "extract_base_plasmid_calls",
                  result |-> extract_base_plasmid_calls(fn_in.old_call)]
    /\ UNCHANGED <<fn_in, cmp_vars, cons_vars, pl_vars>>

Call_get_replicon_family ==
    /\ fn_out = NoResult
    /\ fn_out' = [fn |-> "get_replicon_family",
                  result |-> get_replicon_family(fn_in.old_call)]
    /\ UNCHANGED <<fn_in, cmp_vars, cons_vars, pl_vars>>

\* classify_replicon_family returns a str for every str: Some(family).
Call_classify_replicon_family ==
    /\ fn_out = NoResult
    /\ fn_out' = [fn |-> "classify_replicon_family",
                  result |-> Some(classify_replicon_family(fn_in.old_call))]
    /\ UNCHANGED <<fn_in, cmp_vars, cons_vars, pl_vars>>

NextCall ==
    \/ Call_extract_base_plasmid_calls
    \/ Call_get_replicon_family
    \/ Call_classify_replicon_family

SpecCall == InitCall /\ [][NextCall]_vars

(***************************************************************************)
(* Inputs of a comparison run                                              *)
(***************************************************************************)
DigitStr == <<"1", "2", "3", "4", "5", "6", "7", "8", "9">>

KeyPool == {<<"B31", "contig_" \o DigitStr[i]>> : i \in 1..MaxKeys}

\* Calls as read_tsv returns them, stripped (line 162).
OldCallPool == {"", "chromosome", "plasmid_x"}
\* Rows of the --new table: (call, contig_len).
NewRowPool ==
    {<<"", 50000>>, <<"chromosome", 200000>>, <<"plasmid_x*", 50000>>}
OverridePool == {"lp17"}
ThresholdPool == {0, 100000}

Dicts(K, V) == UNION {[S -> V] : S \in SUBSET K}

InitCompare ==
    /\ old_calls \in Dicts(KeyPool, OldCallPool)
    /\ \E new_rows \in Dicts(KeyPool, NewRowPool) :
          /\ new_calls = [k \in DOMAIN new_rows |-> new_rows[k][1]]
          /\ contig_lengths = [k \in DOMAIN new_rows |-> new_rows[k][2]]
    /\ overrides \in Dicts(KeyPool, OverridePool)
    /\ auto_chromosome_bp \in ThresholdPool
    /\ all_keys = sorted_keys(DOMAIN old_calls \cup DOMAIN new_calls)
    /\ key_idx = 1 /\ rows = <<>> /\ categories = EmptyDict
    /\ auto_chrom_count = 0 /\ override_count = 0
    /\ cmp_pc = "loop" /\ cmp_raised = "none" /\ comparison_tsv = <<>>
    /\ review_count = 0 /\ review_lines = <<>> /\ review_more = 0
    /\ FnIdle
    /\ ConsIdle
    /\ PlIdle

NextCompare == ProcessKey \/ WriteComparison

SpecCompare == InitCompare /\ [][NextCompare]_vars

\* Tables of many fragments: contig_1 .. contig_n of one assembly, every one
\* with the same old call and the same row of the --new table.
InitReview ==
    /\ \E n \in 0..MaxReviewKeys : \E old_call \in OldCallPool : \E new_row \in NewRowPool :
          LET keys == {<<"B31", "contig_" \o int_str(i)>> : i \in 1..n}
          IN /\ old_calls = [k \in keys |-> old_call]
             /\ new_calls = [k \in keys |-> new_row[1]]
             /\ contig_lengths = [k \in keys |-> new_row[2]]
    /\ overrides = EmptyDict
    /\ auto_chromosome_bp \in ThresholdPool
    /\ all_keys = sorted_keys(DOMAIN old_calls \cup DOMAIN new_calls)
    /\ key_idx = 1 /\ rows = <<>> /\ categories = EmptyDict
    /\ auto_chrom_count = 0 /\ override_count = 0
    /\ cmp_pc = "loop" /\ cmp_raised = "none" /\ comparison_tsv = <<>>
    /\ review_count = 0 /\ review_lines = <<>> /\ review_more = 0
    /\ FnIdle
    /\ ConsIdle
    /\ PlIdle

SpecReview == InitReview /\ [][NextCompare]_vars

(***************************************************************************)
(* Inputs of the consensus                                                 *)
(***************************************************************************)
ClusterCallPool == {"lp54", "lp17"}

\* --threshold values 0.5, 0.667, 0.9, 0.95 and 1.0.
ConsensusThresholdPool == {500, 667, 900, 950, 1000}

\* Clusters whose top fraction lies halfway between two thousandths: 15/16,
\* which is a float, 77/80 and 79/80, which are not.
HalfwayLists ==
    {[i \in 1..p[2] |-> IF i <= p[1] THEN "lp54" ELSE "lp17"] :
        p \in {<<15, 16>>, <<77, 80>>, <<79, 80>>}}

InitConsensus ==
    /\ replicon_list \in
          UNION {[1..n -> ClusterCallPool] : n \in 0..MaxIsolates} \cup HalfwayLists
    /\ threshold \in ConsensusThresholdPool
    /\ consensus_result = NotApplied
    /\ family_result = NotApplied
    /\ FnIdle
    /\ CmpIdle
    /\ PlIdle

NextConsensus == Call_assign_consensus_replicon

SpecConsensus == InitConsensus /\ [][NextConsensus]_vars

(***************************************************************************)
(* Inputs of the family diversity: the calls of the members of one gene    *)
(* cluster, among them two variants of lp28, two fusions and a sentinel.   *)
(***************************************************************************)
MaxCalls == 4

\* the default of --threshold, 0.9
DefaultThreshold == 900

FamilyCallPool == {"lp28-1", "lp28-2", "cp32-1+5", "lp21-cp9", "chromosome", "unknown"}

InitDiversity ==
    /\ replicon_list \in UNION {[1..n -> FamilyCallPool] : n \in 0..MaxCalls}
    /\ threshold = DefaultThreshold
    /\ consensus_result = NotApplied
    /\ family_result = NotApplied
    /\ FnIdle
    /\ CmpIdle
    /\ PlIdle

NextDiversity == Call_assign_consensus_replicon \/ Call_analyze_family_diversity

SpecDiversity == InitDiversity /\ [][NextDiversity]_vars

(***************************************************************************)
(* Inputs of a placement run                                               *)
(***************************************************************************)
ContigIdPool == <<"ctg1 len=5", "ctg2", " ctg3", "ctg4", "ctg5">>

Row(aid, cid, call, clen, rl, rcl, qc, id) ==
    [assembly_id |-> aid, contig_id |-> cid, plasmid_name |-> call, contig_len |-> clen,
     ref_length |-> rl, ref_covered_length |-> rcl, query_coverage_percent |-> qc,
     overall_percent_identity |-> id]

\* Fragments of a classified-mode table: the rows possible at position i.
\* Alignment statistics are not read in this mode.
ClassifiedRows ==
    LET f(i, k) ==
          <<<<"asm1", ContigIdPool[i], "lp54">>,
            <<"asm1", ContigIdPool[i], "lp54">>,
            <<"asm1", ContigIdPool[i], "Chromosome">>,
            <<"asm2", ContigIdPool[i], "cp32-1+5">>,
            <<"asm2", ContigIdPool[i], "cp32-1-5">>,
            <<"asm2", ContigIdPool[i], "Unclassified">>,
            <<"asm1", ContigIdPool[i], "">>,
            <<"asm1", ContigIdPool[i], "lp54">>,
            <<"asm1", "", "lp54">>>>[k]
    IN [i \in 1..Len(ContigIdPool) |-> [k \in 1..9 |-> Row(f(i, k)[1], f(i, k)[2], f(i, k)[3], LengthCells[k], "", "", "", "")]]

\* Fragments of a complete-mode table.  contig_len is not read in this mode.
CompleteRows ==
    LET f(i, k) ==
          <<<<"asm1", ContigIdPool[i], "lp54">>,
            <<"asm1", ContigIdPool[i], "lp54">>,
            <<"asm1", ContigIdPool[i], "lp54">>,
            <<"asm1", ContigIdPool[i], "lp54">>,
            <<"asm1", ContigIdPool[i], "lp54">>,
            <<"asm1", ContigIdPool[i], "lp54">>,
            <<"asm1", ContigIdPool[i], "lp54">>,
            <<"asm1", ContigIdPool[i], "lp54">>,
            <<"asm2", ContigIdPool[i], "cp32-1+5">>,
            <<"asm1", ContigIdPool[i], "unclassified">>,
            <<"asm1", ContigIdPool[i], "">>,
            <<"asm1", "", "lp54">>,
            <<"asm1", ContigIdPool[i], "lp54">>>>[k]
    IN [i \in 1..Len(ContigIdPool) |-> [k \in 1..13 |-> Row(f(i, k)[1], f(i, k)[2], f(i, k)[3], "1000", CompleteCells[k][1], CompleteCells[k][2], CompleteCells[k][3], CompleteCells[k][4])]]

RequiredColumns == {"assembly_id", "contig_id", "plasmid_name"}

AllColumns ==
    RequiredColumns \cup {"contig_len", "ref_length", "ref_covered_length",
                          "query_coverage_percent", "overall_percent_identity"}

\* The header has every column, or lacks one of the required columns.
Headers == {AllColumns} \cup {AllColumns \ {c} : c \in RequiredColumns}

\* The tables of at most max rows whose row at position i is of pool[i], read
\* under a header of the given columns.
IsTable(rws, pool, names, max) ==
    LET \* Lines 148-152: csv.DictReader gives a row no key for a column the header
        \* lacks, and every read of a required column is row.get(column, ""): the row
        \* is modelled with the value each read gives.
        DictRow(cells, names1) == [c \in AllColumns |-> IF c \in names1 THEN cells[c] ELSE ""]
    IN \E n \in 0..max : \E t \in [1..n -> 1..Len(pool[1])] :
           rws = [i \in 1..n |-> DictRow(pool[i][t[i]], names)]

\* A dry run and a table without a required column are each explored on
\* tables one row shorter.
TableRows(dry, names) ==
    MaxRows - (IF dry THEN 1 ELSE 0) - (IF names # AllColumns THEN 1 ELSE 0)

InitPlacement ==
    /\ dry_run \in BOOLEAN
    /\ fieldnames \in Headers
    /\ \/ /\ mode = "classified"
          /\ IsTable(classifier_rows, ClassifiedRows, fieldnames,
                     TableRows(dry_run, fieldnames))
          /\ ref_cov = 95 /\ query_cov = 90 /\ identity = 90
       \/ /\ mode = "complete"
          /\ IsTable(classifier_rows, CompleteRows, fieldnames,
                     TableRows(dry_run, fieldnames))
          /\ \E th \in CompletenessPool :
                ref_cov = th[1] /\ query_cov = th[2] /\ identity = th[3]
    /\ assembly_order = sorted_assemblies(classifier_rows)
    /\ asm_idx = 1 /\ chrom_files = EmptyDict /\ unloc_files = EmptyDict
    /\ dry_run_out = <<>>
    /\ total_chrom_files = 0 /\ total_unloc_files = 0 /\ total_placed = 0
    /\ total_unlocalised = 0 /\ total_unplaced = 0
    /\ assemblies_without_entries = <<>>
    /\ pl_pc = "loop" /\ pl_raised = "none"
    /\ FnIdle
    /\ CmpIdle
    /\ ConsIdle

NextPlacement == ProcessAssembly \/ PrintSummary

SpecPlacement == InitPlacement /\ [][NextPlacement]_vars

(***************************************************************************)
(* Claims about the pure functions, checked under SpecFn                   *)
(***************************************************************************)
CategorizeApplied == fn_out.fn = "categorize"

NineCategories ==
    {"exact_match", "new_unclassified", "old_unclassified", "annotation_suffix",
     "extra_annotation", "base_match", "partial_overlap", "same_family_tiebreak",
     "different"}

\* The ordered category table as the comparator's contract states it.
ClaimedCategory(old_call, new_call) ==
    LET o == extract_base_plasmid_calls(old_call)
        n == extract_base_plasmid_calls(new_call)
        of == get_replicon_family(old_call)
        nf == get_replicon_family(new_call)
    IN IF (is_empty(old_call) /\ is_empty(new_call))
          \/ normalize_call(old_call) = normalize_call(new_call) THEN "exact_match"
       ELSE IF is_empty(new_call) THEN "new_unclassified"
       ELSE IF is_empty(old_call) THEN "old_unclassified"
       ELSE IF strip_suffix(normalize_call(old_call)) = strip_suffix(normalize_call(new_call))
            THEN "annotation_suffix"
       ELSE IF o # {} /\ o \subseteq n THEN "extra_annotation"
       ELSE IF n # {} /\ n \subseteq o THEN "base_match"
       ELSE IF o \cap n # {} THEN "partial_overlap"
       ELSE IF of # None /\ nf # None /\ of = nf THEN "same_family_tiebreak"
       ELSE "different"

\* C1: for every pair (old, new) categorize ends normally, never in an error,
\* with the first of the nine ordered categories whose condition holds.
C1_CategorizeTotalOrdered ==
    CategorizeApplied =>
        /\ fn_out.result.raised = "none"
        /\ fn_out.result.category \in NineCategories
        /\ fn_out.result.category = ClaimedCategory(fn_in.old_call, fn_in.new_call)

\* C2: when both calls are non-empty, differ after normalisation and after
\* suffix stripping, and the old call's base tokens are a non-empty subset of
\* the new call's, categorize returns (extra_annotation, trimmed old call).
C2_ExtraAnnotation ==
    (/\ CategorizeApplied
     /\ ~is_empty(fn_in.old_call) /\ ~is_empty(fn_in.new_call)
     /\ normalize_call(fn_in.old_call) # normalize_call(fn_in.new_call)
     /\ strip_suffix(normalize_call(fn_in.old_call))
            # strip_suffix(normalize_call(fn_in.new_call))
     /\ extract_base_plasmid_calls(fn_in.old_call) # {}
     /\ extract_base_plasmid_calls(fn_in.old_call)
            \subseteq extract_base_plasmid_calls(fn_in.new_call))
    => fn_out.result = Return("extra_annotation", str_strip(fn_in.old_call))

\* C5: for every call string c, categorize(c, c) returns category exact_match.
C5_SelfExactMatch ==
    (CategorizeApplied /\ fn_in.old_call = fn_in.new_call)
    => (fn_out.result.raised = "none" /\ fn_out.result.category = "exact_match")

\* categorize was applied to a padded, starred call and to itself.
C5_Witness ==
    /\ CategorizeApplied
    /\ fn_in.old_call = " lp28-4* "
    /\ fn_in.new_call = " lp28-4* "
    /\ fn_out.result = Return("exact_match", "lp28-4*")

\* C6: normalize is idempotent, normalize(normalize(x)) = normalize(x), also
\* for a sentinel word with blanks around it.
C6_NormalizeIdempotent ==
    fn_out.fn = "normalize_call" => normalize_call(fn_out.result) = fn_out.result

(***************************************************************************)
(* Claims about the comparison run, checked under SpecCompare              *)
(***************************************************************************)
RowKey(row) == <<row.assembly_id, row.contig_id>>

RunEnded == cmp_pc \in {"done", "error"}

\* (category, resolved_call) of a key when the loop reaches the override step.
BeforeOverride(key) ==
    auto_resolve(key, initial_category(key) @@ [fired |-> 0, overridden |-> 0])

OverrideWins(row) ==
    LET key == RowKey(row)
        before == BeforeOverride(key)
    IN IF key \in DOMAIN overrides
       THEN /\ row.resolved_call = overrides[key]
            /\ row.category = (IF before.category = "exact_match"
                               THEN "exact_match" ELSE "manual_override")
       ELSE /\ row.resolved_call = before.resolved_call
            /\ row.category = before.category

\* C3: the manual override is applied last and always wins: a row whose key is
\* in the override table carries the override value as resolved_call, with
\* category manual_override unless the category before the override step was
\* exact_match; a row whose key is not in the table is left as it was.
C3_OverrideWins == \A i \in 1..Len(comparison_tsv) : OverrideWins(comparison_tsv[i])

\* The table was written with an overridden exact match and an overridden
\* new_unclassified row.
C3_Witness ==
    /\ cmp_pc = "done"
    /\ \E i \in 1..Len(comparison_tsv) :
          LET row == comparison_tsv[i]
          IN /\ RowKey(row) \in DOMAIN overrides
             /\ row.old_call = "chromosome" /\ row.new_call = "chromosome"
             /\ row.category = "exact_match" /\ row.resolved_call = "lp17"
    /\ \E i \in 1..Len(comparison_tsv) :
          LET row == comparison_tsv[i]
          IN /\ RowKey(row) \in DOMAIN overrides
             /\ BeforeOverride(RowKey(row)).category = "new_unclassified"
             /\ row.category = "manual_override" /\ row.resolved_call = "lp17"

\* C4: a fragment in both sources with no override row, whose calls are
\* categorised different, whose new call normalises to "chromosome" and whose
\* length is >= the positive threshold gets the output row
\* (auto_chromosome, new call).
C4_AutoChromosome ==
    RunEnded =>
        \A key \in (DOMAIN old_calls \cap DOMAIN new_calls) \ DOMAIN overrides :
            (/\ ClaimedCategory(old_calls[key], new_calls[key]) = "different"
             /\ normalize_call(new_calls[key]) = "chromosome"
             /\ auto_chromosome_bp > 0
             /\ contig_lengths[key] >= auto_chromosome_bp)
            => \E i \in 1..Len(comparison_tsv) :
                  /\ RowKey(comparison_tsv[i]) = key
                  /\ comparison_tsv[i].category = "auto_chromosome"
                  /\ comparison_tsv[i].resolved_call = str_strip(new_calls[key])

(***************************************************************************)
(* Claims about the consensus, checked under SpecConsensus                 *)
(***************************************************************************)
ConsensusApplied == consensus_result # NotApplied

\* Occurrences of the reported top_replicon in the input list.
TopCount == list_count(replicon_list, consensus_result.top_replicon)

NineToOne == <<"lp54", "lp54", "lp54", "lp54", "lp54", "lp54", "lp54", "lp54", "lp54", "lp17">>

\* C7: for a non-empty list, consensus_replicon is top_replicon when
\* top_count / N >= tau and "multi-replicon" otherwise, the boundary being
\* inclusive: nine lp54 and one lp17 give lp54 at 0.9, multi-replicon at 0.95.
C7_ConsensusThreshold ==
    (ConsensusApplied /\ Len(replicon_list) > 0) =>
        /\ consensus_result.consensus_replicon =
              (IF 1000 * TopCount >= threshold * Len(replicon_list)
               THEN consensus_result.top_replicon ELSE "multi-replicon")
        /\ (replicon_list = NineToOne /\ threshold = 900)
              => consensus_result.consensus_replicon = "lp54"
        /\ (replicon_list = NineToOne /\ threshold = 950)
              => consensus_result.consensus_replicon = "multi-replicon"

\* The consensus of nine lp54 and one lp17 at exactly 0.9.
C7_Witness ==
    /\ ConsensusApplied
    /\ replicon_list = NineToOne
    /\ threshold = 900
    /\ consensus_result.consensus_replicon = "lp54"
    /\ consensus_result.consensus_fraction = 900

\* C8 as stated: the reported consensus_fraction equals top_count / N exactly,
\* and consensus_replicon = top_replicon iff the reported fraction >= tau.
C8_ReportedFractionExact ==
    (ConsensusApplied /\ Len(replicon_list) > 0) =>
        /\ consensus_result.consensus_fraction * Len(replicon_list) = 1000 * TopCount
        /\ (consensus_result.consensus_replicon = consensus_result.top_replicon)
              <=> (consensus_result.consensus_fraction >= threshold)

\* C8 amended: the reported consensus_fraction is top_count / N rounded to
\* three decimals; consensus_replicon = top_replicon iff the unrounded
\* top_count / N >= tau, which implies, but does not follow from, the
\* reported fraction being >= tau.
C8_ReportedFractionRounded ==
    (ConsensusApplied /\ Len(replicon_list) > 0) =>
        LET n == Len(replicon_list)
            d == consensus_result.consensus_fraction * n - 1000 * TopCount
        IN /\ 2 * d <= n /\ 2 * d >= -n
           /\ (consensus_result.consensus_replicon = consensus_result.top_replicon)
                 <=> (1000 * TopCount >= threshold * n)
           /\ (consensus_result.consensus_replicon = consensus_result.top_replicon)
                 => (consensus_result.consensus_fraction >= threshold)

\* Two of three calls agree at tau = 0.667: 0.667 is reported, yet no consensus.
C8_Witness ==
    /\ ConsensusApplied
    /\ replicon_list = <<"lp54", "lp17", "lp54">>
    /\ threshold = 667
    /\ consensus_result.consensus_fraction = 667
    /\ consensus_result.top_replicon = "lp54"
    /\ consensus_result.consensus_replicon = "multi-replicon"

(***************************************************************************)
(* Claims about the placement run, checked under SpecPlacement             *)
(***************************************************************************)
PlacementEnded == pl_pc \in {"done", "error"}

\* The chromosome list and the unlocalised list the run produced for an
\* assembly: the lines of its file, or the lines a dry run printed for it.
ListOf(files, printed, aid) ==
    IF dry_run
    THEN IF \E j \in 1..Len(dry_run_out) : dry_run_out[j].assembly_id = aid
         THEN printed[CHOOSE j \in 1..Len(dry_run_out) : dry_run_out[j].assembly_id = aid]
         ELSE <<>>
    ELSE IF aid \in DOMAIN files THEN files[aid] ELSE <<>>

ChromListOf(aid) ==
    ListOf(chrom_files, [j \in 1..Len(dry_run_out) |-> dry_run_out[j].chrom], aid)

UnlocListOf(aid) ==
    ListOf(unloc_files, [j \in 1..Len(dry_run_out) |-> dry_run_out[j].unloc], aid)

\* The fragment of a row is written to a list under the name of its call.
WrittenTo(list, row) ==
    \E j \in 1..Len(list) :
        /\ list[j][1] = parse_contig_name(row.contig_id).value
        /\ list[j][2] = sanitize_replicon_name(str_strip(row.plasmid_name))

\* The rows of an assembly that carry a call, by position in the table.
GroupOf(aid, call) ==
    {i \in 1..Len(classifier_rows) :
        /\ str_strip(classifier_rows[i].assembly_id) = aid
        /\ str_strip(classifier_rows[i].plasmid_name) = call}

PlacedCalls(aid) ==
    {str_strip(classifier_rows[i].plasmid_name) :
        i \in {j \in 1..Len(classifier_rows) :
                  /\ str_strip(classifier_rows[j].assembly_id) = aid
                  /\ is_classified(str_strip(classifier_rows[j].plasmid_name))}}

\* C9: after a classified-mode run, for every assembly and every call carried
\* by one of its fragments (empty and "unclassified" calls excluded), exactly
\* one fragment of the group is in the chromosome list, every other fragment
\* of the group is in the unlocalised list under the same replicon name, and
\* the chromosome-list fragment is at least as long as each unlocalised one
\* (an unparsable length counting as 0).
C9_OnePrimaryPerGroup ==
    (PlacementEnded /\ mode = "classified") =>
        \A aid \in assembly_ids(classifier_rows) : \A call \in PlacedCalls(aid) :
            \E p \in GroupOf(aid, call) :
                /\ WrittenTo(ChromListOf(aid), classifier_rows[p])
                /\ ~WrittenTo(UnlocListOf(aid), classifier_rows[p])
                /\ \A i \in GroupOf(aid, call) \ {p} :
                      /\ WrittenTo(UnlocListOf(aid), classifier_rows[i])
                      /\ ~WrittenTo(ChromListOf(aid), classifier_rows[i])
                      /\ ~int_less(contig_len_of(classifier_rows[p]).value,
                                   contig_len_of(classifier_rows[i]).value)

\* The completeness criterion as stated, for the floats f of the cells
\* ref_length, ref_covered_length, query_coverage_percent and
\* overall_percent_identity: the reference length is known and > 0, covered /
\* reference >= ref_cov, query coverage % / 100 >= query_cov and identity % /
\* 100 >= identity (thresholds in hundredths), an unparsable query coverage
\* or identity counting as 0.
StatedCriterion(f) ==
    /\ f[1].raised = "none" /\ f[2].raised = "none"
    /\ ~float_le_zero(f[1].value)
    /\ \A p \in {<<f[2].value, f[1].value, ref_cov>>,
                 <<IF f[3].raised = "none" THEN f[3].value ELSE FloatZero(1), Hundred, query_cov>>,
                 <<IF f[4].raised = "none" THEN f[4].value ELSE FloatZero(1), Hundred, identity>>} :
          float_ge(float_div(p[1], p[2]), threshold_float(p[3]))

StatedFloats(cells) == [j \in 1..4 |-> py_float(cells[j])]

StatedComplete(row) ==
    StatedCriterion(StatedFloats(<<row.ref_length, row.ref_covered_length,
                                   row.query_coverage_percent, row.overall_percent_identity>>))

\* C10: in complete mode no unlocalised entry is ever produced, and after the
\* run a fragment with a contig id and a call is in the chromosome list of its
\* assembly if and only if it meets the completeness criterion.
C10_CompleteModePlacement ==
    mode = "complete" =>
        /\ unloc_files = EmptyDict
        /\ total_unlocalised = 0 /\ total_unloc_files = 0
        /\ \A j \in 1..Len(dry_run_out) : dry_run_out[j].unloc = <<>>
        /\ PlacementEnded =>
              \A i \in 1..Len(classifier_rows) :
                  LET row == classifier_rows[i]
                  IN (/\ str_strip(row.assembly_id) # ""
                      /\ str_strip(row.contig_id) # ""
                      /\ str_strip(row.plasmid_name) # "")
                     => (WrittenTo(ChromListOf(str_strip(row.assembly_id)), row)
                            <=> StatedComplete(row))

\* A complete-mode run with the default thresholds wrote the fragment that
\* meets each threshold exactly and left out one that misses the reference
\* coverage by a base and one whose query coverage does not parse.
C10_Witness ==
    /\ pl_pc = "done" /\ mode = "complete" /\ ~dry_run
    /\ ref_cov = 95 /\ query_cov = 90 /\ identity = 90
    /\ fieldnames = AllColumns
    /\ "asm1" \in DOMAIN chrom_files
    /\ \E i, j, k \in 1..Len(classifier_rows) :
          /\ classifier_rows[i].ref_covered_length = "950"
          /\ classifier_rows[i].query_coverage_percent = "90"
          /\ classifier_rows[i].overall_percent_identity = "90"
          /\ classifier_rows[i].plasmid_name = "lp54"
          /\ WrittenTo(chrom_files["asm1"], classifier_rows[i])
          /\ classifier_rows[j].ref_covered_length = "949"
          /\ ~WrittenTo(chrom_files["asm1"], classifier_rows[j])
          /\ classifier_rows[k].query_coverage_percent = "n/a"
          /\ ~WrittenTo(chrom_files["asm1"], classifier_rows[k])

\* The lines of every chromosome list produced so far, by assembly.
ChromLists ==
    IF dry_run THEN {dry_run_out[j].chrom : j \in 1..Len(dry_run_out)}
    ELSE {chrom_files[aid] : aid \in DOMAIN chrom_files}

\* C11: in either mode no two lines of one assembly's chromosome list carry
\* the same CHROMOSOME_NAME: the list has one entry per replicon.
C11_OneEntryPerReplicon ==
    \A list \in ChromLists :
        \A i, j \in 1..Len(list) : list[i][2] = list[j][2] => i = j

\* The name as stated: every '+' of the call is a '-' of the name, unless the
\* call is "chromosome" in any letter case, whose name is "main".
StatedName(r, name) ==
    IF str_lower(r) = "chromosome" THEN name = "main"
    ELSE /\ Len(name) = Len(r)
         /\ \A k \in 1..Len(r) :
               CharAt(name, k) = (IF CharAt(r, k) = "+" THEN "-" ELSE CharAt(r, k))

\* The topology-type as stated, from the unsanitised call (prefixes compared
\* on the lower-cased call, as "chromosome" is).
StatedTopologyType(r) ==
    IF str_lower(r) = "chromosome" THEN "Linear-Chromosome"
    ELSE IF Len(r) >= 2 /\ str_lower(SubSeq(r, 1, 2)) = "cp" THEN "Circular-Plasmid"
    ELSE "Linear-Plasmid"

\* C12: the chromosome-list line of a placed fragment with call r carries the
\* sanitised name of r ('+' replaced by '-', "chromosome" in any letter case
\* replaced by "main") and the topology-type of the unsanitised r:
\* Linear-Chromosome for the chromosome, Circular-Plasmid for a cp call,
\* Linear-Plasmid for every other call.
C12_NameAndTopology ==
    \A i \in 1..Len(classifier_rows) :
        LET row == classifier_rows[i]
            r == str_strip(row.plasmid_name)
            list == ChromListOf(str_strip(row.assembly_id))
        IN \A j \in 1..Len(list) :
              list[j][1] = parse_contig_name(row.contig_id).value
              => /\ StatedName(r, list[j][2])
                 /\ list[j][3] = StatedTopologyType(r)

\* A classified run wrote the chromosome as main, a fused cp32 under its
\* sanitised name and a linear plasmid.
C12_Witness ==
    /\ pl_pc = "done" /\ ~dry_run
    /\ "asm1" \in DOMAIN chrom_files /\ "asm2" \in DOMAIN chrom_files
    /\ \E i, j \in 1..Len(chrom_files["asm1"]) :
          /\ \E k \in 1..Len(classifier_rows) :
                /\ classifier_rows[k].plasmid_name = "Chromosome"
                /\ chrom_files["asm1"][i][1] = parse_contig_name(classifier_rows[k].contig_id).value
          /\ chrom_files["asm1"][i][2] = "main"
          /\ chrom_files["asm1"][i][3] = "Linear-Chromosome"
          /\ chrom_files["asm1"][j][2] = "lp54"
          /\ chrom_files["asm1"][j][3] = "Linear-Plasmid"
    /\ \E i \in 1..Len(chrom_files["asm2"]) :
          /\ \E k \in 1..Len(classifier_rows) :
                /\ classifier_rows[k].plasmid_name = "cp32-1+5"
                /\ chrom_files["asm2"][i][1] = parse_contig_name(classifier_rows[k].contig_id).value
          /\ chrom_files["asm2"][i][2] = "cp32-1-5"
          /\ chrom_files["asm2"][i][3] = "Circular-Plasmid"

\* C13: a run on a classifier table whose header lacks a required column ends
\* in a fatal error that names the column (the exit of a validation of the
\* header), and produces no list file.
C13_MissingColumnFatal ==
    (RequiredColumns \ fieldnames # {}) =>
        /\ pl_pc # "done"
        /\ (pl_pc = "error" => pl_raised = "SystemExit")
        /\ chrom_files = EmptyDict /\ unloc_files = EmptyDict

\* C14: an error raised while one assembly is processed affects that assembly
\* only: after the run, every assembly whose own rows are placed without an
\* error has its chromosome list and its unlocalised list in the output.
C14_ErrorConfinedToKey ==
    PlacementEnded =>
        \A aid \in assembly_ids(classifier_rows) :
            LET r == place_assembly(select_rows(classifier_rows, aid))
            IN r.raised = "none" =>
                  /\ ChromListOf(aid) = r.chrom_lines
                  /\ UnlocListOf(aid) = r.unloc_lines

(***************************************************************************)
(* Claims about the manual-review warning, checked under SpecReview        *)
(***************************************************************************)
\* Positions of the rows of the written table that need manual review.
ReviewRows ==
    {i \in 1..Len(comparison_tsv) : comparison_tsv[i].category \in ReviewCategories}

\* C15 as stated: every row of the written table whose category is different,
\* partial_overlap or new_unclassified is printed, one by one, under the
\* manual-review warning, however many such rows there are.
C15_AllEnumerated ==
    cmp_pc = "done" =>
        \A i \in ReviewRows :
            \E j \in 1..Len(review_lines) : RowKey(review_lines[j]) = RowKey(comparison_tsv[i])

\* C15 amended: the warning gives the number of rows that need review, prints
\* the first 20 of them in key order one by one, and reports the others as
\* the count of "... and N more": every such row is printed or counted.
C15_EnumeratedUpToLimit ==
    cmp_pc = "done" =>
        /\ review_count = Cardinality(ReviewRows)
        /\ Len(review_lines) = (IF review_count > 20 THEN 20 ELSE review_count)
        /\ review_more = review_count - Len(review_lines)
        /\ \A j \in 1..Len(review_lines) :
              /\ \E i \in ReviewRows : comparison_tsv[i] = review_lines[j]
              /\ Cardinality({i \in ReviewRows :
                                 key_less(RowKey(comparison_tsv[i]), RowKey(review_lines[j]))})
                    = j - 1

\* A table with 21 new_unclassified rows was written: 20 were printed and one
\* was counted as "1 more".
C15_Witness ==
    /\ cmp_pc = "done"
    /\ Cardinality(ReviewRows) = 21
    /\ \A i \in ReviewRows : comparison_tsv[i].category = "new_unclassified"
    /\ Len(review_lines) = 20 /\ review_more = 1

(***************************************************************************)
(* Further claims about the comparison run, checked under SpecCompare      *)
(***************************************************************************)
RECURSIVE TallySum(_)
TallySum(tally) ==
    IF DOMAIN tally = {} THEN 0
    ELSE LET cat == CHOOSE c \in DOMAIN tally : TRUE
         IN tally[cat] + TallySum([c \in DOMAIN tally \ {cat} |-> tally[c]])

\* C16: after the run the comparison table has exactly one row for every key
\* of the old source or the new source and no other row, and the category
\* tallies sum to the number of these keys.
C16_OneRowPerKey ==
    RunEnded =>
        LET keys == DOMAIN old_calls \cup DOMAIN new_calls
        IN /\ \A key \in keys :
                 Cardinality({i \in 1..Len(comparison_tsv) :
                                 RowKey(comparison_tsv[i]) = key}) = 1
           /\ \A i \in 1..Len(comparison_tsv) : RowKey(comparison_tsv[i]) \in keys
           /\ TallySum(categories) = Cardinality(keys)

\* C17: a row whose key is in one source only and not in the override table
\* has category old_only or new_only and the single available call as
\* resolved_call, whatever the call, the length and the threshold are.
C17_SingleSource ==
    \A i \in 1..Len(comparison_tsv) :
        LET row == comparison_tsv[i]
            key == RowKey(row)
        IN key \notin DOMAIN overrides =>
              /\ (key \in DOMAIN old_calls \ DOMAIN new_calls
                    => row.category = "old_only" /\ row.resolved_call = old_calls[key])
              /\ (key \in DOMAIN new_calls \ DOMAIN old_calls
                    => row.category = "new_only" /\ row.resolved_call = new_calls[key])

\* With the threshold at 100000 a table was written with a new_only row of a
\* 200000 bp chromosome and an old_only row.
C17_Witness ==
    /\ cmp_pc = "done" /\ auto_chromosome_bp = 100000 /\ overrides = EmptyDict
    /\ \E i, j \in 1..Len(comparison_tsv) :
          /\ RowKey(comparison_tsv[i]) \notin DOMAIN old_calls
          /\ comparison_tsv[i].new_call = "chromosome"
          /\ comparison_tsv[i].contig_len = 200000
          /\ comparison_tsv[i].category = "new_only"
          /\ comparison_tsv[i].resolved_call = "chromosome"
          /\ RowKey(comparison_tsv[j]) \notin DOMAIN new_calls
          /\ comparison_tsv[j].old_call = "plasmid_x"
          /\ comparison_tsv[j].category = "old_only"
          /\ comparison_tsv[j].resolved_call = "plasmid_x"

(***************************************************************************)
(* Claims on the family diversity (SpecDiversity)                          *)
(***************************************************************************)
\* The family the specification gives each call of FamilyCallPool.
StatedFamily ==
    ("lp28-1" :> "lp28") @@ ("lp28-2" :> "lp28") @@ ("cp32-1+5" :> "cp32") @@
    ("lp21-cp9" :> "lp21") @@ ("chromosome" :> "chromosome") @@ ("unknown" :> "unknown")

StatedFamilies == {StatedFamily[replicon_list[i]] : i \in 1..Len(replicon_list)}

DiversityApplied == family_result # NotApplied

\* C18: a non-empty list of calls that all map to one family, variants of
\* one family included, has n_families = 1, is_single_family true and
\* cross_family_score 0; and is_single_family is true exactly when
\* n_families <= 1.
C18_SingleFamily ==
    DiversityApplied =>
        /\ (replicon_list # <<>> /\ Cardinality(StatedFamilies) = 1) =>
                /\ family_result.n_families = 1
                /\ family_result.is_single_family
                /\ family_result.cross_family_score = 0
        /\ family_result.is_single_family <=> family_result.n_families <= 1

C18_Witness ==
    /\ DiversityApplied
    /\ {replicon_list[i] : i \in 1..Len(replicon_list)} = {"lp28-1", "lp28-2"}
    /\ family_result.n_families = 1
    /\ family_result.is_single_family

\* round(math.log2(k) * 10^4), the scale at which the products below fit.
Log2E4 == <<0, 10000, 15850, 20000, 23219, 25850, 28074, 30000, 31699, 33219, 34594, 35850>>

StatedCount(f) ==
    Cardinality({i \in 1..Len(replicon_list) : StatedFamily[replicon_list[i]] = f})

RECURSIVE StatedLogSum(_)
StatedLogSum(fs) ==
    IF fs = {} THEN 0
    ELSE LET f == CHOOSE x \in fs : TRUE
         IN StatedCount(f) * Log2E4[StatedCount(f)] + StatedLogSum(fs \ {f})

\* N * (Shannon entropy of the family frequencies), in ten-thousandths
StatedEntropyTimesN ==
    Len(replicon_list) * Log2E4[Len(replicon_list)] - StatedLogSum(StatedFamilies)

StatedMaxEntropyTimesN == Len(replicon_list) * Log2E4[Cardinality(StatedFamilies)]

UniformSplit == \A f, g \in StatedFamilies : StatedCount(f) = StatedCount(g)

AbsDiff(a, b) == IF a >= b THEN a - b ELSE b - a

\* C19: cross_family_score lies in [0, 1]; it is 1.0 when the members are
\* split uniformly over two or more families; and with two or more families
\* it is the Shannon entropy of the family frequencies divided by
\* log2(n_families), to the thousandth at which it is reported.
C19_ScoreRange ==
    DiversityApplied =>
        /\ family_result.cross_family_score \in 0..1000
        /\ (Cardinality(StatedFamilies) >= 2 /\ UniformSplit) =>
                family_result.cross_family_score = 1000
        /\ Cardinality(StatedFamilies) >= 2 =>
                AbsDiff(1000 * StatedEntropyTimesN,
                        family_result.cross_family_score * StatedMaxEntropyTimesN)
                    <= StatedMaxEntropyTimesN

C19_Witness ==
    /\ DiversityApplied
    /\ Len(replicon_list) = 4
    /\ Cardinality(StatedFamilies) = 4
    /\ family_result.n_families = 4
    /\ family_result.cross_family_score = 1000

\* C20: for the empty list the consensus is "unknown" with top_replicon
\* "unknown", fraction 0.0 and 0 isolates, and the diversity has top_family
\* "unknown", 0 families and score 0.0; both calls return a result.
C20_EmptyList ==
    replicon_list = <<>> =>
        /\ consensus_result # NotApplied =>
                /\ consensus_result.consensus_replicon = "unknown"
                /\ consensus_result.top_replicon = "unknown"
                /\ consensus_result.consensus_fraction = 0
                /\ consensus_result.n_isolates = 0
        /\ DiversityApplied =>
                /\ family_result.top_family = "unknown"
                /\ family_result.n_families = 0
                /\ family_result.cross_family_score = 0

C20_Witness ==
    /\ replicon_list = <<>>
    /\ consensus_result # NotApplied
    /\ DiversityApplied
    /\ family_result.top_family = "unknown"

(***************************************************************************)
(* Claims about the functions of one call, checked under SpecCall          *)
(***************************************************************************)
\* normalize as stated: trimmed and lower-cased, the sentinel words collapsed
\* to the empty call.
StatedNormalize(call) ==
    LET t == str_lower(str_strip(call))
    IN IF t \in EmptyWords THEN "" ELSE t

\* The non-blank, trimmed ':::'-separated tokens of the normalised call.
StatedTokens(call) ==
    IF StatedNormalize(call) = "" THEN {}
    ELSE LET parts == re_split(":::", StatedNormalize(call))
         IN {str_strip(parts[i]) : i \in {j \in 1..Len(parts) : str_strip(parts[j]) # ""}}

\* C21: split_compound gives the set of the non-blank, trimmed, lower-cased
\* ':::'-separated tokens of a non-empty call, never splitting on '+', and
\* the empty set for an empty or unclassified call.
C21_SplitCompound ==
    fn_out.fn = "extract_base_plasmid_calls" =>
        fn_out.result = StatedTokens(fn_in.old_call)

(***************************************************************************)
(* Further claims about the placement run, checked under SpecPlacement     *)
(***************************************************************************)
RowsOf(aid) ==
    {i \in 1..Len(classifier_rows) : str_strip(classifier_rows[i].assembly_id) = aid}

\* No fragment of the assembly is placed: in classified mode none carries a
\* call, in complete mode none with a contig id and a call is complete.
ZeroPlaced(aid) ==
    IF mode = "classified" THEN PlacedCalls(aid) = {}
    ELSE \A i \in RowsOf(aid) :
            ~(/\ str_strip(classifier_rows[i].contig_id) # ""
              /\ str_strip(classifier_rows[i].plasmid_name) # ""
              /\ StatedComplete(classifier_rows[i]))

WithoutEntries == {assemblies_without_entries[j] : j \in 1..Len(assemblies_without_entries)}

\* C22: after the run, an unlocalised list exists for an assembly only with
\* at least one fragment-tier entry in it, and every assembly with zero
\* placed fragments has neither list and is in the set of assemblies without
\* entries, whatever happens to the other assemblies.
C22_NoEntriesReported ==
    PlacementEnded =>
        \A aid \in assembly_ids(classifier_rows) :
            /\ aid \in DOMAIN unloc_files => unloc_files[aid] # <<>>
            /\ ZeroPlaced(aid) =>
                  /\ aid \notin DOMAIN chrom_files
                  /\ aid \notin DOMAIN unloc_files
                  /\ ChromListOf(aid) = <<>> /\ UnlocListOf(aid) = <<>>
                  /\ aid \in WithoutEntries

(***************************************************************************)
(* Claims about the family of a call, checked under SpecFn and SpecCall    *)
(***************************************************************************)
\* family_of as stated: the suffix stripped and the call normalised; None
\* for the empty call, "chromosome" for chromosome, else the leading
\* letters+digits run (for a fusion name, of the component before the first
\* '+', '-cp' or '-lp'), else the call itself.
StatedFamilyOf(call) ==
    LET n == StatedNormalize(strip_suffix(call))
        base == re_split("-lp", re_split("-cp", re_split("+", n)[1])[1])[1]
    IN IF n = "" THEN None
       ELSE IF n = "chromosome" THEN Some("chromosome")
       ELSE IF family_match(base) # None THEN family_match(base)
       ELSE IF family_match(n) # None THEN family_match(n)
       ELSE Some(n)

SameStatedFamily(a, b) ==
    StatedFamilyOf(a) # None /\ StatedFamilyOf(a) = StatedFamilyOf(b)

\* C23: for two non-empty calls that differ after normalisation and suffix
\* stripping and have disjoint base-token sets, categorize returns
\* (same_family_tiebreak, old call) when both resolve to the same non-null
\* family, and returns different only when they do not.
C23_SameFamilyTiebreak ==
    (/\ CategorizeApplied
     /\ StatedNormalize(fn_in.old_call) # "" /\ StatedNormalize(fn_in.new_call) # ""
     /\ strip_suffix(StatedNormalize(fn_in.old_call))
            # strip_suffix(StatedNormalize(fn_in.new_call))
     /\ StatedTokens(fn_in.old_call) \cap StatedTokens(fn_in.new_call) = {})
    => /\ SameStatedFamily(fn_in.old_call, fn_in.new_call) =>
              fn_out.result = Return("same_family_tiebreak", str_strip(fn_in.old_call))
       /\ (fn_out.result.raised = "none" /\ fn_out.result.category = "different") =>
              ~SameStatedFamily(fn_in.old_call, fn_in.new_call)

\* C24: on every non-empty call the comparator's get_replicon_family and the
\* aggregator's classify_replicon_family both return the family family_of
\* is stated to return.
C24_OneFamilyFunction ==
    (/\ fn_out.fn \in {"get_replicon_family", "classify_replicon_family"}
     /\ StatedFamilyOf(fn_in.old_call) # None)
    => fn_out.result = StatedFamilyOf(fn_in.old_call)

(***************************************************************************)
(* Claims about the counters of the comparison run, under SpecCompare      *)
(***************************************************************************)
RowsOfCategory(rws, cat) == {i \in 1..Len(rws) : rws[i].category = cat}

\* Lines 271-292 applied to a key whose category were `different`.
ResolvedFromDifferent(key) ==
    auto_resolve(key, Return("different", str_strip(old_calls[key]))
                        @@ [fired |-> 0, overridden |-> 0])

\* C25: the two heuristics recategorise only a fragment of both tables whose
\* category is different, under a positive threshold; the counter of
\* auto-resolutions grows by at most 1 per fragment; on a fragment that is
\* different at most one of them fires, and with the threshold 0 none does
\* (the tables of a run do not change, so this is looked at when it starts).
C25_AutoResolveAtMostOnce ==
    /\ auto_chrom_count <= Len(rows)
    /\ auto_chrom_count = 0 \/ auto_chrom_count <= Cardinality(
            {i \in 1..Len(rows) :
                /\ RowKey(rows[i]) \in DOMAIN old_calls \cap DOMAIN new_calls
                /\ ClaimedCategory(rows[i].old_call, rows[i].new_call) = "different"})
    /\ \A i \in RowsOfCategory(rows, "auto_chromosome") :
          /\ auto_chromosome_bp > 0
          /\ RowKey(rows[i]) \in DOMAIN old_calls \cap DOMAIN new_calls
          /\ ClaimedCategory(rows[i].old_call, rows[i].new_call) = "different"
    /\ auto_chromosome_bp = 0 => auto_chrom_count = 0
    /\ key_idx = 1 =>
          \A key \in DOMAIN old_calls \cap DOMAIN new_calls :
              /\ ResolvedFromDifferent(key).fired <= 1
              /\ auto_chromosome_bp = 0 =>
                    /\ ResolvedFromDifferent(key).fired = 0
                    /\ ResolvedFromDifferent(key).category = "different"

\* The table was written under a positive threshold with a chromosome
\* fragment of at least the threshold whose old call was unclassified: it
\* kept its category and nothing was counted as auto-resolved.
C25_Witness ==
    /\ cmp_pc = "done"
    /\ auto_chromosome_bp > 0
    /\ auto_chrom_count = 0
    /\ \E i \in 1..Len(comparison_tsv) :
          /\ comparison_tsv[i].new_call = "chromosome"
          /\ comparison_tsv[i].contig_len >= auto_chromosome_bp
          /\ comparison_tsv[i].category = "old_unclassified"
          /\ RowKey(comparison_tsv[i]) \in DOMAIN old_calls
          /\ ResolvedFromDifferent(RowKey(comparison_tsv[i])).fired = 1

\* C29: the counter of auto-resolutions is the number of rows of category
\* auto_chromosome and the counter of overrides the number of rows of
\* category manual_override, for the rows appended so far and, once the
\* table is written, for the rows of the table.
C29_CountersMatchTable ==
    /\ auto_chrom_count = Cardinality(RowsOfCategory(rows, "auto_chromosome"))
    /\ override_count = Cardinality(RowsOfCategory(rows, "manual_override"))
    /\ cmp_pc = "done" =>
          /\ auto_chrom_count
                = Cardinality(RowsOfCategory(comparison_tsv, "auto_chromosome"))
          /\ override_count
                = Cardinality(RowsOfCategory(comparison_tsv, "manual_override"))

\* The table was written with an overridden row that is counted and an
\* overridden exact match that is not.
C29_Witness ==
    /\ cmp_pc = "done"
    /\ override_count = 1
    /\ \E i, j \in 1..Len(comparison_tsv) :
          /\ RowKey(comparison_tsv[i]) \in DOMAIN overrides
          /\ comparison_tsv[i].category = "manual_override"
          /\ RowKey(comparison_tsv[j]) \in DOMAIN overrides
          /\ comparison_tsv[j].category = "exact_match"

(***************************************************************************)
(* Further claims about the consensus, checked under SpecConsensus         *)
(***************************************************************************)
Occurrences(x) == Cardinality({i \in 1..Len(replicon_list) : replicon_list[i] = x})

DistinctCalls == {replicon_list[i] : i \in 1..Len(replicon_list)}

\* x occurs in the list before every occurrence of y.
OccursFirst(x, y) ==
    \E i \in 1..Len(replicon_list) :
        replicon_list[i] = x /\ \A k \in 1..i : replicon_list[k] # y

\* "name(count)" pairs of the distinct calls, the top one first.
StatedDetail(top) ==
    LET item(x) == x \o "(" \o int_str(Occurrences(x)) \o ")"
        others == DistinctCalls \ {top}
    IN IF others = {} THEN item(top)
       ELSE item(top) \o "," \o item(CHOOSE y \in others : TRUE)

\* C26: for a non-empty list, top_replicon is a call of maximal count, the
\* one occurring first in the list among those of maximal count; n_isolates
\* is the list length, and the per-replicon counts are the numbers of
\* occurrences of the distinct calls, which sum to it.
C26_TopReplicon ==
    (ConsensusApplied /\ Len(replicon_list) > 0) =>
        LET top == consensus_result.top_replicon
        IN /\ top \in DistinctCalls
           /\ \A y \in DistinctCalls \ {top} :
                 \/ Occurrences(y) < Occurrences(top)
                 \/ Occurrences(y) = Occurrences(top) /\ OccursFirst(top, y)
           /\ consensus_result.n_isolates = Len(replicon_list)
           /\ Cardinality(DistinctCalls) <= 2 =>
                 consensus_result.all_replicons = StatedDetail(top)

\* A tie of two calls with two occurrences each, the second call of the
\* list occurring last: the first call of the list is the top one.
C26_Witness ==
    /\ ConsensusApplied
    /\ replicon_list = <<"lp17", "lp54", "lp17", "lp54">>
    /\ consensus_result.top_replicon = "lp17"
    /\ consensus_result.n_isolates = 4
    /\ consensus_result.all_replicons = "lp17(2),lp54(2)"

(***************************************************************************)
(* Claims about unplaced fragments and the totals, under SpecPlacement     *)
(***************************************************************************)
\* The call of the row is empty or "unclassified" in any case.
StatedUnclassified(row) ==
    str_strip(row.plasmid_name) = "" \/ str_lower(str_strip(row.plasmid_name)) = "unclassified"

\* C27: in both modes a fragment whose call is empty or "unclassified" (in
\* any case) is in neither list of its assembly, whatever its alignment
\* statistics are.
C27_UnclassifiedNeverWritten ==
    \A i \in 1..Len(classifier_rows) :
        LET row == classifier_rows[i]
        IN (/\ str_strip(row.assembly_id) # ""
            /\ str_strip(row.contig_id) # ""
            /\ StatedUnclassified(row))
           => /\ ~WrittenTo(ChromListOf(str_strip(row.assembly_id)), row)
              /\ ~WrittenTo(UnlocListOf(str_strip(row.assembly_id)), row)

\* C28: after all assemblies are processed, in either mode, the three totals
\* add up to the number of rows with a non-empty assembly_id.
C28_AccountingConserved ==
    pl_pc = "done" =>
        total_placed + total_unlocalised + total_unplaced
            = Cardinality({i \in 1..Len(classifier_rows) :
                              str_strip(classifier_rows[i].assembly_id) # ""})

NamesOf(list) == {list[j][2] : j \in 1..Len(list)}

\* C30: in classified mode every CHROMOSOME_NAME of an assembly's
\* unlocalised list is a CHROMOSOME_NAME of the same assembly's chromosome
\* list, so an unlocalised list has lines only if the chromosome list has.
C30_UnlocalisedHasPrimary ==
    mode = "classified" =>
        \A aid \in assembly_ids(classifier_rows) :
            /\ NamesOf(UnlocListOf(aid)) \subseteq NamesOf(ChromListOf(aid))
            /\ UnlocListOf(aid) # <<>> => ChromListOf(aid) # <<>>

\* A classified run wrote, for one assembly, the chromosome and a plasmid
\* with a second, shorter fragment: two primaries and one unlocalised line.
C30_Witness ==
    /\ pl_pc = "done" /\ mode = "classified" /\ ~dry_run
    /\ "asm1" \in DOMAIN chrom_files /\ "asm1" \in DOMAIN unloc_files
    /\ NamesOf(chrom_files["asm1"]) = {"main", "lp54"}
    /\ NamesOf(unloc_files["asm1"]) = {"lp54"}

====
